---------------------------- MODULE Spec2Model ----------------------------
(***************************************************************************)
(* H264Decoder (webview/h264/webcodecs-decoder.js, first class of the      *)
(* file): the Annex-B byte accumulator, the NAL unit scanner, the SPS/PPS  *)
(* store, the avcC configuration record and the Annex-B to AVCC conversion.*)
(*                                                                         *)
(* Bytes are naturals 0..255, a Uint8Array is a sequence of bytes.  The    *)
(* code indexes from 0; every operator below takes and returns 0-based     *)
(* indexes exactly as the code does and converts at the sequence access.   *)
(***************************************************************************)
EXTENDS Integers, Sequences, FiniteSets, TLC

VARIABLES
    isInitialized,  \* this.isInitialized
    buffer,         \* this.buffer (the accumulator)
    sps,            \* this.sps (Null or the stored unit, start code included)
    pps,            \* this.pps
    isConfigured,   \* this.isConfigured
    videoDecoder,   \* this.videoDecoder: Null0 or the id of an engine instance
    engines,        \* the VideoDecoder instances constructed so far: id -> state
    pending,        \* bytes the capture source has produced and not yet delivered
    events,         \* what the most recent handler did: units handled, engine calls
    received,       \* scanner history: every byte passed to decode() so far
    handled,        \* scanner history: every unit passed to handleNalUnit so far
    dispatched,     \* scanner history: the data of every videoDecoder.decode call
    source,         \* scanner history: the units the capture source set out to send
    ghost,          \* bookkeeping the claims are stated with (see ScanGhost0, Ghost0)
    input,          \* the webview's pointer tracking and the input messages it posts
    session,        \* the stream runner, the capture process and the messages to the webview
    runner,         \* ScrcpyRunner with its awaits, listeners, timers and child processes
    jpeg            \* JpegDecoder and the image element it loads frames into

vars == <<isInitialized, buffer, sps, pps, isConfigured, videoDecoder, engines,
          pending, events, received, handled, dispatched,
          source, ghost, input, session, runner, jpeg>>

-----------------------------------------------------------------------------
(* Bounds of the model.                                                    *)

\* Longest byte stream enumerated exhaustively over ByteAlphabet.
MaxStream == 7
\* Longest chunk the capture source delivers piecewise (it may also deliver
\* everything it has produced at once).
MaxChunk == 3
\* Most units in a stream assembled from UnitCatalogue.
MaxUnits == 4
\* Longest pending stream that is cut at every byte; a longer one is delivered
\* in large chunks until this much is left.
MaxFine == 24
\* Bytes per KiB in the model (1024 in the program): the accumulator cap and
\* the kept suffix stay 512 and 256 of these units, as in the code.
Kib == 1
\* Most engine instances constructed in one behaviour.
MaxEngines == 2

-----------------------------------------------------------------------------
(* JavaScript values.                                                      *)

\* null for this.sps / this.pps: a stored unit is never empty (it holds at
\* least a start code), so the empty sequence is free to stand for null.
Null == << >>
\* null for this.videoDecoder; engine ids start at 1.
Null0 == 0
\* The value of reading a typed array past its end.
Undefined == 0 - 1

\* buf[i] with a 0-based index, as JavaScript evaluates it.
Elem(buf, i) == IF i >= 0 /\ i < Len(buf) THEN buf[i + 1] ELSE Undefined

\* What storing x into a Uint8Array element keeps (undefined becomes 0).
ToUint8(x) == IF x = Undefined THEN 0 ELSE x % 256

\* buf.slice(a, b) and buf.slice(a) for 0 <= a.
Slice(buf, a, b) ==
    LET hi == IF b > Len(buf) THEN Len(buf) ELSE b
    IN  IF a >= hi THEN << >> ELSE SubSeq(buf, a + 1, hi)
SliceFrom(buf, a) == Slice(buf, a, Len(buf))
\* buf.slice(-k): the last k elements.
SliceLast(buf, k) == IF k >= Len(buf) THEN buf ELSE SubSeq(buf, Len(buf) - k + 1, Len(buf))

\* x & 0x1F, with undefined & 0x1F = 0.
And1F(x) == IF x = Undefined THEN 0 ELSE x % 32

-----------------------------------------------------------------------------
(* Program constants.                                                      *)

maxIterations == 100
BufferCap == 512 * Kib
BufferKeep == 256 * Kib

-----------------------------------------------------------------------------
(* findNalStart                                                            *)

\* The test of one loop iteration at index i: 00 00 01, or 00 00 00 01 when
\* i < length - 4.
StartCodeAt(buf, i) ==
    /\ Elem(buf, i) = 0
    /\ Elem(buf, i + 1) = 0
    /\ \/ Elem(buf, i + 2) = 1
       \/ /\ i < Len(buf) - 4
          /\ Elem(buf, i + 2) = 0
          /\ Elem(buf, i + 3) = 1

\* findNalStart as it would be without its four-byte branch: a scanner that
\* knows 00 00 01 only.
findNalStartShortOnly(buf, fromIndex) ==
    LET last == Len(buf) - 4
        Short(i) == Elem(buf, i) = 0 /\ Elem(buf, i + 1) = 0 /\ Elem(buf, i + 2) = 1
    IN  IF \E i \in fromIndex..last : Short(i)
        THEN CHOOSE i \in fromIndex..last :
                 Short(i) /\ \A j \in fromIndex..(i - 1) : ~Short(j)
        ELSE 0 - 1

\* for (i = fromIndex; i < length - 3; i++) ... return i; return -1
findNalStart(buf, fromIndex) ==
    LET last == Len(buf) - 4
    IN  IF \E i \in fromIndex..last : StartCodeAt(buf, i)
        THEN CHOOSE i \in fromIndex..last :
                 /\ StartCodeAt(buf, i)
                 /\ \A j \in fromIndex..(i - 1) : ~StartCodeAt(buf, j)
        ELSE 0 - 1

-----------------------------------------------------------------------------
(* The decoder object and its engine as one record, so that the handlers   *)
(* can be composed: the fields of H264Decoder that the handlers read or    *)
(* write, the state of every VideoDecoder instance constructed so far      *)
(* ("unconfigured", "configured" or "closed", as WebCodecs defines it) and *)
(* the events of the handler that is running.                              *)
(*                                                                         *)
(* o is what the engine does during one handler:                           *)
(*   o.cfg   videoDecoder.configure throws                                 *)
(*   o.dec   videoDecoder.decode throws an error that does not say the     *)
(*           engine is closed (a bad chunk, a missing key frame)           *)
(*   o.ctor  new VideoDecoder(...) throws                                  *)
(* A closed engine throws on configure, and on decode with an error whose  *)
(* message contains 'closed'; an unconfigured engine throws on decode.     *)

NoFault == [cfg |-> FALSE, dec |-> FALSE, ctor |-> FALSE]
\* One kind of failure at a time.
Oracles ==
    {NoFault, [NoFault EXCEPT !.cfg = TRUE], [NoFault EXCEPT !.dec = TRUE],
     [NoFault EXCEPT !.ctor = TRUE]}
\* The failures open to a handler that makes no configure or decode call.
CtorOracles == {NoFault, [NoFault EXCEPT !.ctor = TRUE]}

Ev(op, eng, data, kind, type, ok) ==
    [op |-> op, eng |-> eng, data |-> data, kind |-> kind, type |-> type, ok |-> ok]

\* initDecoder(): try { this.videoDecoder = new VideoDecoder(...) } catch { showError }
initDecoder(s, o) ==
    IF o.ctor
    THEN s
    ELSE LET id == Len(s.engines) + 1
         IN  [s EXCEPT !.videoDecoder = id,
                       !.engines = Append(@, "unconfigured"),
                       !.events = Append(@, Ev("new", id, << >>, "", 0, "ok"))]

\* The start-code length as it would be if every start code were taken to be
\* four bytes long.
startCodeLenFour(nalUnit) == 4

\* The start code length the code reads off a stored or delimited unit.
startCodeLenOf(nalUnit) == IF Elem(nalUnit, 2) = 1 THEN 3 ELSE 4

\* The avcC box as it would be if the start code were taken to be four bytes
\* long whatever the unit says.
avcCOfFourByteCodes(spsUnit, ppsUnit) ==
    LET spsData == SliceFrom(spsUnit, 4)
        ppsData == SliceFrom(ppsUnit, 4)
    IN  << 1,
           ToUint8(Elem(spsData, 1)),
           ToUint8(Elem(spsData, 2)),
           ToUint8(Elem(spsData, 3)),
           255,
           225,
           (Len(spsData) \div 256) % 256,
           Len(spsData) % 256 >>
        \o spsData
        \o << 1,
              (Len(ppsData) \div 256) % 256,
              Len(ppsData) % 256 >>
        \o ppsData

\* The avcC box configureDecoder assembles from the stored SPS and PPS.
avcCOf(spsUnit, ppsUnit) ==
    LET spsData == SliceFrom(spsUnit, startCodeLenOf(spsUnit))
        ppsData == SliceFrom(ppsUnit, startCodeLenOf(ppsUnit))
    IN  << 1,
           ToUint8(Elem(spsData, 1)),
           ToUint8(Elem(spsData, 2)),
           ToUint8(Elem(spsData, 3)),
           255,
           225,
           (Len(spsData) \div 256) % 256,
           Len(spsData) % 256 >>
        \o spsData
        \o << 1,
              (Len(ppsData) \div 256) % 256,
              Len(ppsData) % 256 >>
        \o ppsData

\* configureDecoder()
configureDecoder(s, o) ==
    IF s.sps = Null \/ s.pps = Null \/ s.videoDecoder = Null0
    THEN s
    ELSE LET avcC == avcCOf(s.sps, s.pps)
             throws == o.cfg \/ s.engines[s.videoDecoder] = "closed"
         IN  IF throws
             THEN [s EXCEPT !.events =
                       Append(@, Ev("configure", s.videoDecoder, avcC, "", 0, "throws"))]
             ELSE [s EXCEPT !.events =
                       Append(@, Ev("configure", s.videoDecoder, avcC, "", 0, "ok")),
                            !.engines[s.videoDecoder] = "configured",
                            !.isConfigured = TRUE]

\* The AVCC chunk data as it would be if three bytes were stripped whatever
\* the start code.
avccDataOfThreeByteCodes(nalUnit) ==
    LET nalData == SliceFrom(nalUnit, 3)
    IN  << (Len(nalData) \div 16777216) % 256,
           (Len(nalData) \div 65536) % 256,
           (Len(nalData) \div 256) % 256,
           Len(nalData) % 256 >>
        \o nalData

\* The AVCC chunk data handleNalUnit builds for a payload unit.
avccDataOf(nalUnit) ==
    LET nalData == SliceFrom(nalUnit, startCodeLenOf(nalUnit))
    IN  << (Len(nalData) \div 16777216) % 256,
           (Len(nalData) \div 65536) % 256,
           (Len(nalData) \div 256) % 256,
           Len(nalData) % 256 >>
        \o nalData

\* The unit type as it would be read without the mask: the whole header byte.
nalTypeUnmasked(nalUnit) ==
    LET nalHeader == Elem(nalUnit, startCodeLenOf(nalUnit))
    IN  IF nalHeader = Undefined THEN 0 ELSE nalHeader

\* nalUnit[startCodeLen] & 0x1F
nalTypeOf(nalUnit) == And1F(Elem(nalUnit, startCodeLenOf(nalUnit)))

\* What videoDecoder.decode does with a chunk on engine state st.
decodeOutcome(st, o) ==
    IF st = "closed" THEN "closed"
    ELSE IF st = "unconfigured" \/ o.dec THEN "error"
    ELSE "ok"

\* handleNalUnit as it would be without the isConfigured test of its gate.
handleNalUnitUngated(s, nalUnit, o) ==
    LET nalType == nalTypeOf(nalUnit)
        s0 == [s EXCEPT !.events = Append(@, Ev("unit", 0, nalUnit, "", nalType, "ok"))]
    IN  IF nalType = 7
        THEN LET s1 == [s0 EXCEPT !.sps = nalUnit]
             IN  IF s1.pps # Null THEN configureDecoder(s1, o) ELSE s1
        ELSE IF nalType = 8
        THEN LET s1 == [s0 EXCEPT !.pps = nalUnit]
             IN  IF s1.sps # Null THEN configureDecoder(s1, o) ELSE s1
        ELSE IF s0.videoDecoder = Null0
        THEN s0
        ELSE IF nalType = 5 \/ nalType = 1
        THEN LET outcome == decodeOutcome(s0.engines[s0.videoDecoder], o)
                 s1 == [s0 EXCEPT !.events =
                            Append(@, Ev("decode", s0.videoDecoder, avccDataOf(nalUnit),
                                         IF nalType = 5 THEN "key" ELSE "delta",
                                         nalType, outcome))]
             IN  IF outcome = "closed"
                 THEN initDecoder([s1 EXCEPT !.isConfigured = FALSE], o)
                 ELSE s1
        ELSE s0

\* handleNalUnit as it would be if it rebuilt the engine after every error of
\* videoDecoder.decode, whatever the message.
handleNalUnitRebuildsOnAnyError(s, nalUnit, o) ==
    LET nalType == nalTypeOf(nalUnit)
        s0 == [s EXCEPT !.events = Append(@, Ev("unit", 0, nalUnit, "", nalType, "ok"))]
    IN  IF nalType = 7
        THEN LET s1 == [s0 EXCEPT !.sps = nalUnit]
             IN  IF s1.pps # Null THEN configureDecoder(s1, o) ELSE s1
        ELSE IF nalType = 8
        THEN LET s1 == [s0 EXCEPT !.pps = nalUnit]
             IN  IF s1.sps # Null THEN configureDecoder(s1, o) ELSE s1
        ELSE IF ~s0.isConfigured \/ s0.videoDecoder = Null0
        THEN s0
        ELSE IF nalType = 5 \/ nalType = 1
        THEN LET outcome == decodeOutcome(s0.engines[s0.videoDecoder], o)
                 s1 == [s0 EXCEPT !.events =
                            Append(@, Ev("decode", s0.videoDecoder, avccDataOf(nalUnit),
                                         IF nalType = 5 THEN "key" ELSE "delta",
                                         nalType, outcome))]
             IN  IF outcome # "ok"
                 THEN initDecoder([s1 EXCEPT !.isConfigured = FALSE], o)
                 ELSE s1
        ELSE s0

\* handleNalUnit as it would be if it configured the engine only while the
\* engine is not configured yet.
handleNalUnitConfiguresOnce(s, nalUnit, o) ==
    LET nalType == nalTypeOf(nalUnit)
        s0 == [s EXCEPT !.events = Append(@, Ev("unit", 0, nalUnit, "", nalType, "ok"))]
    IN  IF nalType = 7
        THEN LET s1 == [s0 EXCEPT !.sps = nalUnit]
             IN  IF s1.pps # Null /\ ~s1.isConfigured THEN configureDecoder(s1, o) ELSE s1
        ELSE IF nalType = 8
        THEN LET s1 == [s0 EXCEPT !.pps = nalUnit]
             IN  IF s1.sps # Null /\ ~s1.isConfigured THEN configureDecoder(s1, o) ELSE s1
        ELSE IF ~s0.isConfigured \/ s0.videoDecoder = Null0
        THEN s0
        ELSE IF nalType = 5 \/ nalType = 1
        THEN LET outcome == decodeOutcome(s0.engines[s0.videoDecoder], o)
                 s1 == [s0 EXCEPT !.events =
                            Append(@, Ev("decode", s0.videoDecoder, avccDataOf(nalUnit),
                                         IF nalType = 5 THEN "key" ELSE "delta",
                                         nalType, outcome))]
             IN  IF outcome = "closed"
                 THEN initDecoder([s1 EXCEPT !.isConfigured = FALSE], o)
                 ELSE s1
        ELSE s0

\* handleNalUnit as it would be if the recovery from a closed engine rebuilt
\* the engine without the line this.isConfigured = false.
handleNalUnitKeepsConfigured(s, nalUnit, o) ==
    LET nalType == nalTypeOf(nalUnit)
        s0 == [s EXCEPT !.events = Append(@, Ev("unit", 0, nalUnit, "", nalType, "ok"))]
    IN  IF nalType = 7
        THEN LET s1 == [s0 EXCEPT !.sps = nalUnit]
             IN  IF s1.pps # Null THEN configureDecoder(s1, o) ELSE s1
        ELSE IF nalType = 8
        THEN LET s1 == [s0 EXCEPT !.pps = nalUnit]
             IN  IF s1.sps # Null THEN configureDecoder(s1, o) ELSE s1
        ELSE IF ~s0.isConfigured \/ s0.videoDecoder = Null0
        THEN s0
        ELSE IF nalType = 5 \/ nalType = 1
        THEN LET outcome == decodeOutcome(s0.engines[s0.videoDecoder], o)
                 s1 == [s0 EXCEPT !.events =
                            Append(@, Ev("decode", s0.videoDecoder, avccDataOf(nalUnit),
                                         IF nalType = 5 THEN "key" ELSE "delta",
                                         nalType, outcome))]
             IN  IF outcome = "closed" THEN initDecoder(s1, o) ELSE s1
        ELSE s0

\* handleNalUnit(nalUnit)
handleNalUnit(s, nalUnit, o) ==
    LET nalType == nalTypeOf(nalUnit)
        s0 == [s EXCEPT !.events = Append(@, Ev("unit", 0, nalUnit, "", nalType, "ok"))]
    IN  IF nalType = 7
        THEN LET s1 == [s0 EXCEPT !.sps = nalUnit]
             IN  IF s1.pps # Null THEN configureDecoder(s1, o) ELSE s1
        ELSE IF nalType = 8
        THEN LET s1 == [s0 EXCEPT !.pps = nalUnit]
             IN  IF s1.sps # Null THEN configureDecoder(s1, o) ELSE s1
        ELSE IF ~s0.isConfigured \/ s0.videoDecoder = Null0
        THEN s0
        ELSE IF nalType = 5 \/ nalType = 1
        THEN LET outcome == decodeOutcome(s0.engines[s0.videoDecoder], o)
                 s1 == [s0 EXCEPT !.events =
                            Append(@, Ev("decode", s0.videoDecoder, avccDataOf(nalUnit),
                                         IF nalType = 5 THEN "key" ELSE "delta",
                                         nalType, outcome))]
             IN  IF outcome = "closed"
                 THEN initDecoder([s1 EXCEPT !.isConfigured = FALSE], o)
                 ELSE s1
        ELSE s0

\* The loop body as it would be if bytes without a start code were thrown
\* away instead of kept for the next chunk.
loopBodyDropsTail(s, o) ==
    LET startIdx == findNalStart(s.buffer, 0)
    IN  IF startIdx = 0 - 1
        THEN [s EXCEPT !.brk = TRUE, !.buffer = << >>]
        ELSE LET nextIdx == findNalStart(s.buffer, startIdx + 3)
             IN  IF nextIdx = 0 - 1
                 THEN [s EXCEPT !.brk = TRUE,
                                !.buffer = IF startIdx > 0 THEN SliceFrom(@, startIdx) ELSE @]
                 ELSE LET nalUnit == Slice(s.buffer, startIdx, nextIdx)
                          s1 == handleNalUnit(s, nalUnit, o)
                      IN  [s1 EXCEPT !.buffer = SliceFrom(@, nextIdx)]

\* The loop body as it would be if the unit were sliced without its end index:
\* buffer.slice(startIdx) for buffer.slice(startIdx, nextIdx).
loopBodySlicesToEnd(s, o) ==
    LET startIdx == findNalStart(s.buffer, 0)
    IN  IF startIdx = 0 - 1
        THEN [s EXCEPT !.brk = TRUE]
        ELSE LET nextIdx == findNalStart(s.buffer, startIdx + 3)
             IN  IF nextIdx = 0 - 1
                 THEN [s EXCEPT !.brk = TRUE,
                                !.buffer = IF startIdx > 0 THEN SliceFrom(@, startIdx) ELSE @]
                 ELSE LET nalUnit == SliceFrom(s.buffer, startIdx)
                          s1 == handleNalUnit(s, nalUnit, o)
                      IN  [s1 EXCEPT !.buffer = SliceFrom(@, nextIdx)]

\* The loop body as it would be if the bytes after the last start code were
\* passed on as a unit instead of being kept for the next chunk.
loopBodyEmitsRemainder(s, o) ==
    LET startIdx == findNalStart(s.buffer, 0)
    IN  IF startIdx = 0 - 1
        THEN [s EXCEPT !.brk = TRUE]
        ELSE LET nextIdx == findNalStart(s.buffer, startIdx + 3)
             IN  IF nextIdx = 0 - 1
                 THEN LET s1 == handleNalUnit(s, SliceFrom(s.buffer, startIdx), o)
                      IN  [s1 EXCEPT !.brk = TRUE, !.buffer = << >>]
                 ELSE LET nalUnit == Slice(s.buffer, startIdx, nextIdx)
                          s1 == handleNalUnit(s, nalUnit, o)
                      IN  [s1 EXCEPT !.buffer = SliceFrom(@, nextIdx)]

\* The loop body as it would be without this.buffer = this.buffer.slice(nextIdx)
\* after a unit was handled.
loopBodyKeepsUnit(s, o) ==
    LET startIdx == findNalStart(s.buffer, 0)
    IN  IF startIdx = 0 - 1
        THEN [s EXCEPT !.brk = TRUE]
        ELSE LET nextIdx == findNalStart(s.buffer, startIdx + 3)
             IN  IF nextIdx = 0 - 1
                 THEN [s EXCEPT !.brk = TRUE,
                                !.buffer = IF startIdx > 0 THEN SliceFrom(@, startIdx) ELSE @]
                 ELSE handleNalUnit(s, Slice(s.buffer, startIdx, nextIdx), o)

\* One run of the body of processBuffer's while loop; brk records that the
\* body left the loop by one of its break statements.
loopBody(s, o) ==
    LET startIdx == findNalStart(s.buffer, 0)
    IN  IF startIdx = 0 - 1
        THEN [s EXCEPT !.brk = TRUE]
        ELSE LET nextIdx == findNalStart(s.buffer, startIdx + 3)
             IN  IF nextIdx = 0 - 1
                 THEN [s EXCEPT !.brk = TRUE,
                                !.buffer = IF startIdx > 0 THEN SliceFrom(@, startIdx) ELSE @]
                 ELSE LET nalUnit == Slice(s.buffer, startIdx, nextIdx)
                          s1 == handleNalUnit(s, nalUnit, o)
                      IN  [s1 EXCEPT !.buffer = SliceFrom(@, nextIdx)]

\* The body run until it breaks, at most n times.  The n runs are composed by
\* halves, which keeps the evaluation shallow for a loop of 100 iterations.
RECURSIVE iterate(_, _, _)
iterate(s, n, o) ==
    IF s.brk \/ n <= 0 THEN s
    ELSE IF n = 1 THEN loopBody(s, o)
    ELSE iterate(iterate(s, n \div 2, o), n - (n \div 2), o)

\* The loop as it would be with an if for the while: one unit a call.
processLoopSingle(s, o) == iterate([s EXCEPT !.brk = FALSE], 1, o)

\* while (processed < maxIterations) { ... processed++ }
processLoop(s, o) == iterate([s EXCEPT !.brk = FALSE], maxIterations, o)

\* The overflow check as it would be with slice(0, 256 * 1024): the oldest
\* bytes kept, the newest dropped.
truncateKeepsOldest(buf) ==
    IF Len(buf) > BufferCap THEN SubSeq(buf, 1, BufferKeep) ELSE buf

\* The overflow check that ends processBuffer.
truncate(buf) == IF Len(buf) > BufferCap THEN SliceLast(buf, BufferKeep) ELSE buf

\* processBuffer(); the "warn" event is its console.warn on overflow.
processBuffer(s, o) ==
    LET s1 == processLoop(s, o)
    IN  IF truncate(s1.buffer) # s1.buffer
        THEN [s1 EXCEPT !.buffer = truncate(@),
                        !.events = Append(@, Ev("warn", 0, << >>, "", 0, "ok"))]
        ELSE s1

\* decode(data) as it would be if the chunk replaced the accumulator instead of
\* being appended to it.
decodeReplacesBuffer(s, data, o) ==
    IF ~s.isInitialized
    THEN s
    ELSE processBuffer([s EXCEPT !.buffer = data], o)

\* decode(data)
decode(s, data, o) ==
    IF ~s.isInitialized
    THEN s
    ELSE processBuffer([s EXCEPT !.buffer = @ \o data], o)

\* clear() as it would be if it left the stored SPS and PPS alone.
clearKeepsParameterSets(s, o) ==
    LET s1 == [s EXCEPT !.buffer = << >>, !.isConfigured = FALSE]
        s2 == IF s1.videoDecoder # Null0
              THEN [s1 EXCEPT !.engines[s1.videoDecoder] = "closed",
                              !.events = Append(@, Ev("close", s1.videoDecoder, << >>, "", 0,
                                                      IF s1.engines[s1.videoDecoder] = "closed"
                                                      THEN "throws" ELSE "ok")),
                              !.videoDecoder = Null0]
              ELSE s1
    IN  initDecoder(s2, o)

\* clear() as it would be if it closed the engine and kept the handle,
\* constructing no new one.
clearReusesEngine(s, o) ==
    LET s1 == [s EXCEPT !.buffer = << >>, !.sps = Null, !.pps = Null,
                        !.isConfigured = FALSE]
    IN  IF s1.videoDecoder # Null0
        THEN [s1 EXCEPT !.engines[s1.videoDecoder] = "closed",
                        !.events = Append(@, Ev("close", s1.videoDecoder, << >>, "", 0,
                                                IF s1.engines[s1.videoDecoder] = "closed"
                                                THEN "throws" ELSE "ok"))]
        ELSE initDecoder(s1, o)

\* clear() as it would be without the try around videoDecoder.close(): the
\* exception of a close() on a closed engine leaves clear() at once.
clearUnguardedClose(s, o) ==
    LET s1 == [s EXCEPT !.buffer = << >>, !.sps = Null, !.pps = Null,
                        !.isConfigured = FALSE]
    IN  IF s1.videoDecoder # Null0 /\ s1.engines[s1.videoDecoder] = "closed"
        THEN [s1 EXCEPT !.events = Append(@, Ev("throw", s1.videoDecoder, << >>, "", 0, "ok"))]
        ELSE clearKeepsParameterSets(s1, o)

\* clear() as it would be without the line this.isConfigured = false.
clearKeepsConfigured(s, o) ==
    LET s1 == [s EXCEPT !.buffer = << >>, !.sps = Null, !.pps = Null]
        s2 == IF s1.videoDecoder # Null0
              THEN [s1 EXCEPT !.engines[s1.videoDecoder] = "closed",
                              !.events = Append(@, Ev("close", s1.videoDecoder, << >>, "", 0,
                                                      IF s1.engines[s1.videoDecoder] = "closed"
                                                      THEN "throws" ELSE "ok")),
                              !.videoDecoder = Null0]
              ELSE s1
    IN  initDecoder(s2, o)

\* clear()
clear(s, o) ==
    LET s1 == [s EXCEPT !.buffer = << >>, !.sps = Null, !.pps = Null,
                        !.isConfigured = FALSE]
        s2 == IF s1.videoDecoder # Null0
              THEN [s1 EXCEPT !.engines[s1.videoDecoder] = "closed",
                              !.events = Append(@, Ev("close", s1.videoDecoder, << >>, "", 0,
                                                      IF s1.engines[s1.videoDecoder] = "closed"
                                                      THEN "throws" ELSE "ok")),
                              !.videoDecoder = Null0]
              ELSE s1
    IN  initDecoder(s2, o)

\* init(canvas), with VideoDecoder defined
init(s, o) == initDecoder([s EXCEPT !.isInitialized = TRUE], o)

\* dispose(): clear(), then the canvas, its context and the frame callback are
\* dropped.  isInitialized is left as it is.
dispose(s, o) == clear(s, o)

\* The decoder object as a handler finds it; the handler's events start with
\* the call itself.
Start(op) ==
    [isInitialized |-> isInitialized, buffer |-> buffer, sps |-> sps, pps |-> pps,
     isConfigured |-> isConfigured, videoDecoder |-> videoDecoder,
     engines |-> engines, brk |-> FALSE,
     events |-> <<Ev(op, 0, IF op \in {"clear", "dispose"} THEN buffer ELSE << >>,
                     "", 0, "ok")>>]

\* The decoder object as a handler leaves it.
Commit(s) ==
    /\ isInitialized' = s.isInitialized
    /\ buffer' = s.buffer
    /\ sps' = s.sps
    /\ pps' = s.pps
    /\ isConfigured' = s.isConfigured
    /\ videoDecoder' = s.videoDecoder
    /\ engines' = s.engines

\* new H264Decoder()
Constructed ==
    [isInitialized |-> FALSE, buffer |-> << >>, sps |-> Null, pps |-> Null,
     isConfigured |-> FALSE, videoDecoder |-> Null0, engines |-> << >>,
     events |-> << >>, brk |-> FALSE]

-----------------------------------------------------------------------------
(* The scanner on its own: an initialised decoder is fed one byte stream,  *)
(* cut into chunks at every possible place.                                *)

\* The units of a list laid end to end (joined by halves).
RECURSIVE Flatten(_)
Flatten(units) ==
    IF units = << >> THEN << >>
    ELSE IF Len(units) = 1 THEN units[1]
    ELSE LET h == Len(units) \div 2
         IN  Flatten(SubSeq(units, 1, h)) \o Flatten(SubSeq(units, h + 1, Len(units)))

\* Every sequence over S of length 0..n.
SeqsUpTo(S, n) == UNION {[1..k -> S] : k \in 0..n}

\* 00, 01 and a header byte (0x65): enough to form, break and nest start codes.
ByteAlphabet == {0, 1, 101}
ByteStreams == SeqsUpTo(ByteAlphabet, MaxStream)

\* Well-formed units: a 3- or 4-byte start code, a header byte, a payload with
\* no start code inside and no trailing zero byte.
UnitCatalogue ==
    { <<0, 0, 1, 101>>,
      <<0, 0, 0, 1, 65, 170>>,
      <<0, 0, 1, 103, 0, 170>>,
      <<0, 0, 0, 1, 104>> }
UnitLists == SeqsUpTo(UnitCatalogue, MaxUnits)

\* More units than one processBuffer call handles.
BurstList == [i \in 1..(maxIterations + 2) |-> <<0, 0, 1, 101>>]

\* A stream as the capture source writes it: the parameter sets, then frames.
FrameList ==
    << <<0, 0, 1, 103, 0, 170>>, <<0, 0, 0, 1, 104>>, <<0, 0, 1, 101>>,
       <<0, 0, 0, 1, 65, 170>>, <<0, 0, 1, 101>>, <<0, 0, 1, 65, 187>>, <<0, 0, 1, 9>> >>

\* A stream with no start code that outgrows the accumulator, here followed
\* by a unit and the start of the next one.
ZeroRun(n) == [i \in 1..n |-> 0]
Overflowing == ZeroRun(BufferCap + 2) \o <<170, 0, 0, 1, 101, 0, 0, 1, 65>>

\* A stream joined in the middle of a unit: the rest of that unit, then the
\* capture source's units, then frames of a lower reference level, an SEI unit
\* and a delimiter.
Joined ==
    <<170, 187>> \o Flatten(FrameList)
    \o <<0, 0, 1, 37, 0, 0, 1, 33, 0, 0, 1, 6, 0, 0, 1, 9>>

ScanSources ==
    {[units |-> << >>, bytes |-> b] : b \in ByteStreams \cup {Overflowing, Joined}}
    \cup {[units |-> u, bytes |-> Flatten(u)] : u \in UnitLists \cup {BurstList, FrameList}}

\* Was a complete unit (a start code with a later start code) left in buf?
HasCompleteUnit(buf) ==
    LET startIdx == findNalStart(buf, 0)
    IN  startIdx # 0 - 1 /\ findNalStart(buf, startIdx + 3) # 0 - 1

\* The units a handler passed to handleNalUnit, in order.
IsUnitEvent(e) == e.op = "unit"
UnitsOf(evs) ==
    LET us == SelectSeq(evs, IsUnitEvent)
    IN  [i \in 1..Len(us) |-> us[i].data]

\* The data of the videoDecoder.decode calls a handler made, in order.
IsDecodeEvent(e) == e.op = "decode"
CallsOf(evs) ==
    LET cs == SelectSeq(evs, IsDecodeEvent)
    IN  [i \in 1..Len(cs) |-> cs[i].data]

HasEvent(evs, op) == \E i \in DOMAIN evs : evs[i].op = op

-----------------------------------------------------------------------------
(* Pointer input.  The webview (main.js) turns mouse and touch events on   *)
(* the canvas into input messages; the view provider's handleInputMessage  *)
(* turns input messages into commands of the stream runner.  The pointer   *)
(* moves along one line: a position is its x in CSS pixels, y stays put.   *)
(* The touch handlers repeat the mouse handlers line for line.             *)

\* const SEND_INTERVAL = 60
SEND_INTERVAL == 60
\* duration > 500: a long press
LongPressMs == 500
\* distance > 10: a swipe; distance < 10 (and held): a long press
MoveThreshold == 10

\* Where the pointer may be.
Positions == {0, 6, 24}
\* canvas.width / canvas.getBoundingClientRect().width
CanvasScale == 2
\* The clock advances by TimeStep ms, up to MaxTime.
TimeStep == 200
MaxTime == 600
\* Gestures the user makes.
MaxGestures == 1

\* The module-level state of main.js before the first pointer event, an empty
\* message queue to the extension, a runner that has executed nothing; and
\*   now       Date.now()
\*   gestures  pointer-downs so far
\*   owed      completed gestures that moved more than MoveThreshold pixels
\*             between pointer-down and pointer-up
\*   dropped   input messages the provider took off the queue and did nothing with
\*   drags     'drag' messages posted since the last pointer-down
\*   terminals 'tap', 'swipe' and 'longPress' messages posted since the last
\*             pointer-down
Input0 ==
    [touchStartX |-> 0, touchStartTime |-> 0, isTouching |-> FALSE,
     pendingClientX |-> Undefined, lastSentDeviceX |-> Undefined, lastSendTime |-> 0,
     dragLoopRunning |-> FALSE, hasSentSegments |-> FALSE,
     now |-> 0, outbox |-> << >>, executed |-> << >>,
     gestures |-> 0, owed |-> 0, dropped |-> 0, drags |-> 0, terminals |-> 0]

\* canvasToDevice, x only
canvasToDevice(canvasX) == canvasX * CanvasScale

\* Math.sqrt(dx^2 + dy^2) with dy = 0
Distance(a, b) == IF a >= b THEN a - b ELSE b - a

\* vscode.postMessage({ type: 'input', action, payload })
PostInput(p, action, x1, x2, duration) ==
    [p EXCEPT !.outbox = Append(@, [action |-> action, x1 |-> x1, x2 |-> x2,
                                     duration |-> duration])]

\* scheduleDragLoop()
scheduleDragLoop(p) == [p EXCEPT !.dragLoopRunning = TRUE]

\* handleMouseDown / handleTouchStart
handleMouseDown(p, x) ==
    scheduleDragLoop([p EXCEPT !.touchStartX = x, !.touchStartTime = p.now,
                               !.isTouching = TRUE, !.pendingClientX = x,
                               !.lastSentDeviceX = Undefined, !.lastSendTime = 0,
                               !.hasSentSegments = FALSE])

\* handleMouseMove / handleTouchMove
handleMouseMove(p, x) ==
    IF ~p.isTouching THEN p ELSE [p EXCEPT !.pendingClientX = x]

\* handleMouseUp as it would be without the early return for a gesture that
\* has sent drag segments.
handleMouseUpAlwaysClassifies(p, x) ==
    IF ~p.isTouching THEN p
    ELSE LET duration == p.now - p.touchStartTime
             distance == Distance(x, p.touchStartX)
             p1 == [p EXCEPT !.isTouching = FALSE]
         IN  IF duration > LongPressMs /\ distance < MoveThreshold
             THEN PostInput(p1, "longPress", canvasToDevice(p.touchStartX), Undefined, duration)
             ELSE IF distance > MoveThreshold
             THEN PostInput(p1, "swipe", canvasToDevice(p.touchStartX), canvasToDevice(x),
                            duration)
             ELSE PostInput(p1, "tap", canvasToDevice(p.touchStartX), Undefined, 0)

\* handleMouseUp / handleTouchEnd (handleMouseLeave calls handleMouseUp)
handleMouseUp(p, x) ==
    IF ~p.isTouching THEN p
    ELSE IF p.hasSentSegments
    THEN [p EXCEPT !.isTouching = FALSE, !.pendingClientX = Undefined,
                   !.lastSentDeviceX = Undefined, !.hasSentSegments = FALSE]
    ELSE LET duration == p.now - p.touchStartTime
             distance == Distance(x, p.touchStartX)
             p1 == [p EXCEPT !.isTouching = FALSE]
         IN  IF duration > LongPressMs /\ distance < MoveThreshold
             THEN PostInput(p1, "longPress", canvasToDevice(p.touchStartX), Undefined, duration)
             ELSE IF distance > MoveThreshold
             THEN PostInput(p1, "swipe", canvasToDevice(p.touchStartX), canvasToDevice(x),
                            duration)
             ELSE PostInput(p1, "tap", canvasToDevice(p.touchStartX), Undefined, 0)

\* Math.max(a, b)
Max(a, b) == IF a >= b THEN a ELSE b

\* dragTick(), the animation-frame callback
dragTick(p) ==
    IF ~p.isTouching THEN [p EXCEPT !.dragLoopRunning = FALSE]
    ELSE IF p.pendingClientX = Undefined THEN p
    ELSE LET device == canvasToDevice(p.pendingClientX)
         IN  IF p.lastSentDeviceX = Undefined
             THEN [p EXCEPT !.lastSentDeviceX = device, !.lastSendTime = p.now]
             ELSE IF p.now - p.lastSendTime >= SEND_INTERVAL /\ device # p.lastSentDeviceX
             THEN [PostInput(p, "drag", p.lastSentDeviceX, device,
                             Max(20, p.now - p.lastSendTime))
                      EXCEPT !.lastSentDeviceX = device, !.lastSendTime = p.now,
                             !.hasSentSegments = TRUE]
             ELSE p

\* handleInputMessage(message): the switch has a case for 'tap', 'swipe' and
\* 'longPress'; each calls the runner, which executes the adb command.
handleInputMessage(p, message) ==
    IF message.action \in {"tap", "swipe", "longPress"}
    THEN [p EXCEPT !.executed = Append(@, message)]
    ELSE [p EXCEPT !.dropped = @ + 1]

-----------------------------------------------------------------------------
(* The capture session.  ScrcpyRunner (extension host) spawns the capture  *)
(* process and emits 'frame' and 'status' events; the view provider posts  *)
(* them to the webview, whose handleMessage passes frames to               *)
(* decoder.decode and resets the decoder on 'stopped' and 'clear'.         *)

\* Capture processes spawned at most.
MaxProcs == 2
\* Commands the user gives at most (start, stop, restart).
MaxUserActs == 2
\* Times the device is plugged in or out at most.
MaxPlugs == 2

\* The byte by which the units of capture process p can be told apart.
ProcTag(p) == 16 + p
\* What capture process p writes to its stdout, one 'data' event per entry:
\* an SPS and a PPS, then an IDR unit.
ProcChunks(p) ==
    << <<0, 0, 1, 103, ProcTag(p), 0, 0, 1, 104, ProcTag(p)>>, <<0, 0, 1, 101, ProcTag(p)>> >>
\* The capture processes whose bytes are in a.
TagsOf(a) == {p \in 1..(MaxProcs + 1) : \E i \in DOMAIN a : a[i] = ProcTag(p)}

\* new ScrcpyRunner(), a connected device, an empty message queue to the
\* webview; and
\*   timers      setTimeout(() => this.start(), 2000) calls not yet run
\*   spawned     capture processes spawned so far
\*   listening   the capture process that is alive with the runner's
\*               listeners attached (0: none)
\*   toEmit      what that process has still to write
\*   restarting  restart() is in its 500 ms wait
\*   crashed     the capture process exited with shouldRestart set and a
\*               code other than 0, and since then the runner has not been
\*               running and the user has given no command
\*   lastProc    the capture process of the chunk passed to decode() last
\*               since the decoder's last clear() (0: none)
\*   mixed       a chunk was passed to decode() after a chunk of another
\*               capture process with no clear() between
Session0 ==
    [process |-> 0, isRunning |-> FALSE, shouldRestart |-> TRUE,
     timers |-> 0, spawned |-> 0, listening |-> 0, toEmit |-> << >>,
     device |-> TRUE, restarting |-> FALSE, channel |-> << >>,
     userActs |-> 0, plugs |-> 0,
     crashed |-> FALSE, lastProc |-> 0, mixed |-> FALSE]

\* this._view.webview.postMessage(m)
Post(r, m) == [r EXCEPT !.channel = Append(@, m)]

\* this.emit('status', status, ...), posted by the provider's listener
EmitStatus(r, status) ==
    Post(r, [type |-> "status", status |-> status, data |-> << >>, proc |-> 0])

\* ScrcpyRunner.start(): checkDeviceConnected rejects with no device.
start(r) ==
    IF r.isRunning THEN r
    ELSE IF ~r.device THEN EmitStatus(r, "error")
    ELSE LET id == r.spawned + 1
             r1 == EmitStatus([r EXCEPT !.shouldRestart = TRUE], "starting")
             r2 == [r1 EXCEPT !.process = id, !.spawned = id, !.isRunning = TRUE,
                              !.listening = id, !.toEmit = ProcChunks(id),
                              !.crashed = FALSE]
         IN  EmitStatus(r2, "running")

\* ScrcpyRunner.stop()
stop(r) ==
    LET r1 == [r EXCEPT !.shouldRestart = FALSE]
    IN  IF r1.process # 0
        THEN EmitStatus([r1 EXCEPT !.process = 0, !.isRunning = FALSE,
                                   !.listening = 0, !.toEmit = << >>], "stopped")
        ELSE r1

\* this.process.on('exit', (code, signal) => ...)
onExit(r, code) ==
    LET r1 == [r EXCEPT !.isRunning = FALSE, !.listening = 0, !.toEmit = << >>]
    IN  IF r1.shouldRestart /\ code # 0
        THEN [r1 EXCEPT !.timers = @ + 1, !.crashed = TRUE]
        ELSE EmitStatus(r1, "stopped")

\* The user has given a command.
UserActed(r) == [r EXCEPT !.userActs = @ + 1, !.crashed = FALSE]

\* May start() spawn one more process?
CanStart(r) == r.isRunning \/ ~r.device \/ r.spawned < MaxProcs

-----------------------------------------------------------------------------
(* ScrcpyRunner step by step: start() up to and after its awaited          *)
(* pre-check, the listeners of the capture process, the restart timer and  *)
(* the child processes of executeAdbCommand.                               *)

\* Capture processes spawned at most.
MaxSpawns == 2
\* Calls made on the runner from outside at most (start, stop, dispose).
MaxCalls == 3
\* executeAdbCommand calls at most.
MaxCommands == 2

\* new ScrcpyRunner(); and
\*   awaiting   start() calls suspended in their awaited pre-check
\*   timers     setTimeout(() => this.start(), 2000) calls not yet run
\*   spawned    capture processes spawned so far
\*   alive      the capture processes that have not exited
\*   wired      the capture processes carrying the runner's listeners
\*   halted     stop() has returned and start() has not been called from
\*              outside the runner since
\*   issued     executeAdbCommand calls so far
\*   pendingCommands   this.pendingCommands
\*   procs      the command processes that have not exited
\*   dying      the command processes killed whose 'exit' event is to come
\*   cwired     the command processes carrying their listeners
\*   ctimers    the commands whose 5 s timeout has not run
\*   settles    how often each command's promise was resolved or rejected
\*   outcome    how each command's promise was settled last
\*   status     the status emitted last
Runner0 ==
    [process |-> 0, isRunning |-> FALSE, shouldRestart |-> TRUE,
     awaiting |-> 0, timers |-> 0, spawned |-> 0, alive |-> {}, wired |-> {},
     halted |-> FALSE, calls |-> 0, disposed |-> FALSE,
     issued |-> 0, pendingCommands |-> {}, procs |-> {}, dying |-> {},
     cwired |-> {}, ctimers |-> {}, settles |-> [c \in 1..MaxCommands |-> 0],
     outcome |-> [c \in 1..MaxCommands |-> ""], status |-> "",
     stream |-> << >>, fed |-> 0, buffer |-> << >>, base |-> 0, frames |-> << >>,
     cut |-> 0]

\* start() up to its first await: if (this.isRunning) return; then
\* await this.checkDeviceConnected()
beginStart(r) ==
    IF r.isRunning THEN r ELSE [r EXCEPT !.awaiting = @ + 1]

\* start() from its awaits on: the pre-check rejected (status 'error', throw),
\* or shouldRestart = true, spawn, isRunning = true and the listeners.
resumeStart(r, ok) ==
    LET r1 == [r EXCEPT !.awaiting = @ - 1]
        id == r.spawned + 1
    IN  IF ~ok THEN [r1 EXCEPT !.status = "error"]
        ELSE [r1 EXCEPT !.shouldRestart = TRUE, !.process = id, !.spawned = id,
                        !.alive = @ \cup {id}, !.wired = @ \cup {id},
                        !.isRunning = TRUE, !.status = "running"]

\* stop(): the listeners of this.process are removed and it is killed.
stopProcess(r) ==
    LET r1 == [r EXCEPT !.shouldRestart = FALSE]
    IN  IF r1.process # 0
        THEN [r1 EXCEPT !.wired = @ \ {r1.process}, !.alive = @ \ {r1.process},
                        !.process = 0, !.isRunning = FALSE, !.status = "stopped"]
        ELSE r1

\* Capture process p exits with the given code; with the listeners on it,
\* this.process.on('exit', ...) runs.
exitListener(r, p, code) ==
    LET r1 == [r EXCEPT !.alive = @ \ {p}]
    IN  IF p \notin r.wired THEN r1
        ELSE LET r2 == [r1 EXCEPT !.wired = @ \ {p}, !.isRunning = FALSE]
             IN  IF r2.shouldRestart /\ code # 0
                 THEN [r2 EXCEPT !.timers = @ + 1]
                 ELSE [r2 EXCEPT !.status = "stopped"]

\* Capture process p could not be spawned: this.process.on('error', ...)
errorListener(r, p) ==
    [r EXCEPT !.alive = @ \ {p}, !.wired = @ \ {p}, !.isRunning = FALSE,
              !.status = "error"]

\* executeAdbCommand(command): spawn, pendingCommands.add(adb), the listeners
\* and the timeout.
executeAdbCommand(r) ==
    LET c == r.issued + 1
    IN  [r EXCEPT !.issued = c, !.pendingCommands = @ \cup {c}, !.procs = @ \cup {c},
                  !.cwired = @ \cup {c}, !.ctimers = @ \cup {c}]

\* cleanup(), then resolve() or reject(...) as how says
cleanupAndSettle(r, c, how) ==
    [r EXCEPT !.pendingCommands = @ \ {c}, !.cwired = @ \ {c}, !.settles[c] = @ + 1,
              !.outcome[c] = how]

\* Command process c exits: adb.on('exit', ...) when its listeners are on.
commandExit(r, c, code) ==
    LET r1 == [r EXCEPT !.procs = @ \ {c}, !.dying = @ \ {c}]
    IN  IF c \in r.cwired
        THEN cleanupAndSettle(r1, c, IF code = 0 THEN "resolved" ELSE "failed")
        ELSE r1

\* Command process c could not be spawned: adb.on('error', ...)
commandError(r, c) == cleanupAndSettle([r EXCEPT !.procs = @ \ {c}], c, "error")

\* The 5 s timeout of command c runs.
commandTimeout(r, c) ==
    LET r1 == [r EXCEPT !.ctimers = @ \ {c}]
    IN  IF c \in r1.pendingCommands
        THEN cleanupAndSettle([r1 EXCEPT !.procs = @ \ {c}], c, "timeout")
        ELSE r1

\* dispose(): stop(), every pending command killed, pendingCommands.clear()
disposeRunner(r) ==
    LET r1 == stopProcess(r)
    IN  [r1 EXCEPT !.dying = @ \cup (r1.pendingCommands \cap r1.procs),
                   !.procs = @ \ r1.pendingCommands,
                   !.pendingCommands = {}, !.disposed = TRUE]

-----------------------------------------------------------------------------
(* The runner's stdout handler: JPEG frames cut out of ffmpeg's output.    *)

\* Longest ffmpeg output enumerated exhaustively over JpegAlphabet.
MaxJpegStream == 5
\* Most pieces of PieceCatalogue in an assembled output.
MaxPieces == 3
\* Longest chunk of one 'data' event.
MaxData == 3
\* Bytes per 512 KiB in the model (512 * 1024 in the program).
HalfMib == 2

\* 1024 * 1024 and 512 * 1024
StdoutCap == 2 * HalfMib
StdoutKeep == HalfMib

\* Buffer.from([0xFF, 0xD8]) and Buffer.from([0xFF, 0xD9])
SOI == <<255, 216>>
EOI == <<255, 217>>

\* The marker bytes and one byte that is part of no marker.
JpegAlphabet == {255, 216, 217, 0}

\* buffer.indexOf(marker, from) for a two-byte marker
indexOf(buf, marker, from) ==
    LET At(i) == Elem(buf, i) = marker[1] /\ Elem(buf, i + 1) = marker[2]
        last == Len(buf) - 2
    IN  IF \E i \in from..last : At(i)
        THEN CHOOSE i \in from..last : At(i) /\ \A k \in from..(i - 1) : ~At(k)
        ELSE 0 - 1

\* The frame slice as it would be with buffer.slice(startIdx, endIdx)
frameSliceShort(buf, startIdx, endIdx) == Slice(buf, startIdx, endIdx)

\* buffer.slice(startIdx, endIdx + 2)
frameSlice(buf, startIdx, endIdx) == Slice(buf, startIdx, endIdx + 2)

\* The while (true) loop of the 'data' handler. r.frames are the 'frame'
\* events emitted, each with the offset in ffmpeg's output its slice began
\* at; r.base is that offset for the buffer.
RECURSIVE extractFrames(_)
extractFrames(r) ==
    LET startIdx == indexOf(r.buffer, SOI, 0)
        endIdx == indexOf(r.buffer, EOI, startIdx + 2)
    IN  IF startIdx = 0 - 1 THEN r
        ELSE IF endIdx = 0 - 1 THEN r
        ELSE extractFrames(
                 [r EXCEPT !.frames = Append(@, [at |-> r.base + startIdx,
                                                 bytes |-> frameSlice(r.buffer, startIdx, endIdx)]),
                           !.buffer = SliceFrom(r.buffer, endIdx + 2),
                           !.base = @ + endIdx + 2])

\* The 'data' handler as it would be without the size limit
onStdoutDataUnlimited(r, data) ==
    extractFrames([r EXCEPT !.buffer = @ \o data, !.fed = @ + Len(data)])

\* this.process.stdout.on('data', ...)
onStdoutData(r, data) ==
    LET r1 == extractFrames([r EXCEPT !.buffer = @ \o data, !.fed = @ + Len(data)])
    IN  IF Len(r1.buffer) > StdoutCap
        THEN [r1 EXCEPT !.buffer = SliceLast(r1.buffer, StdoutKeep),
                        !.base = @ + Len(r1.buffer) - StdoutKeep,
                        !.cut = @ + 1]
        ELSE r1

-----------------------------------------------------------------------------
(* JpegDecoder and its image element.                                      *)

\* decode() calls at most.
MaxFrames == 4
\* clear() calls at most.
MaxClears == 2

\* new JpegDecoder(); pendingFrame is 0 for null, and
\*   created   blob URLs created so far (a URL is its number)
\*   live      the blob URLs created and not revoked
\*   inflight  the URLs the image element is loading
\*   started   image loads started since the last clear()
\*   failed    image loads that ended with onerror
\*   clears    clear() calls so far
Jpeg0 ==
    [isInitialized |-> FALSE, frameCount |-> 0, renderedFrames |-> 0, droppedFrames |-> 0,
     pendingFrame |-> 0, isRendering |-> FALSE,
     created |-> 0, live |-> {}, inflight |-> {}, started |-> 0, failed |-> 0,
     clears |-> 0, calls |-> 0]

\* init(canvas)
jpegInit(j) == [j EXCEPT !.isInitialized = TRUE]

\* decode(frameData) as it would be without URL.revokeObjectURL(this.pendingFrame)
jpegDecodeKeepsUrl(j) ==
    IF ~j.isInitialized THEN j
    ELSE LET j1 == [j EXCEPT !.frameCount = @ + 1]
         IN  IF j1.isRendering
             THEN [j1 EXCEPT !.droppedFrames = @ + 1]
             ELSE LET url == j1.created + 1
                  IN  [j1 EXCEPT !.created = url, !.live = @ \cup {url},
                                 !.pendingFrame = url, !.isRendering = TRUE,
                                 !.inflight = {url}, !.started = @ + 1]

\* decode(frameData); this.img.src = url makes the image element drop the load
\* it had in progress and start the new one.
jpegDecode(j) ==
    IF ~j.isInitialized THEN j
    ELSE LET j1 == [j EXCEPT !.frameCount = @ + 1]
         IN  IF j1.isRendering
             THEN [j1 EXCEPT !.droppedFrames = @ + 1]
             ELSE LET url == j1.created + 1
                  IN  [j1 EXCEPT !.created = url,
                                 !.live = (@ \ {j1.pendingFrame}) \cup {url},
                                 !.pendingFrame = url, !.isRendering = TRUE,
                                 !.inflight = {url}, !.started = @ + 1]

\* img.onload: renderFrame(), the image complete
renderFrame(j) ==
    [j EXCEPT !.inflight = {}, !.renderedFrames = @ + 1, !.isRendering = FALSE]

\* img.onerror: console.error
onerror(j) == [j EXCEPT !.inflight = {}, !.failed = @ + 1]

\* clear()
jpegClear(j) ==
    [j EXCEPT !.frameCount = 0, !.renderedFrames = 0, !.droppedFrames = 0,
              !.isRendering = FALSE, !.live = @ \ {j.pendingFrame}, !.pendingFrame = 0,
              !.started = 0]

-----------------------------------------------------------------------------
\* capped: some decode() returned with a complete unit still in the accumulator
\* (its loop ended at maxIterations); truncated: some decode() cut the accumulator.
\* split: some chunk boundary fell inside a start code of a stream of units.
ScanGhost0 == [capped |-> FALSE, truncated |-> FALSE, split |-> FALSE]

Ready == init(Constructed, NoFault)

ScanInit ==
    /\ source \in ScanSources
    /\ pending = source.bytes
    /\ isInitialized = Ready.isInitialized
    /\ buffer = Ready.buffer
    /\ sps = Ready.sps
    /\ pps = Ready.pps
    /\ isConfigured = Ready.isConfigured
    /\ videoDecoder = Ready.videoDecoder
    /\ engines = Ready.engines
    /\ events = << >>
    /\ received = << >>
    /\ handled = << >>
    /\ dispatched = << >>
    /\ ghost = ScanGhost0
    /\ input = Input0
    /\ session = Session0
    /\ runner = Runner0
    /\ jpeg = Jpeg0

\* The sizes of the next chunk: all that is pending; up to MaxChunk bytes when
\* at most MaxFine bytes are pending; for a longer stream half the accumulator
\* cap, or all but the last MaxFine bytes.
ChunkSizes ==
    {n \in 1..Len(pending) :
        \/ n = Len(pending)
        \/ n <= MaxChunk /\ Len(pending) <= MaxFine
        \/ Len(pending) > MaxFine /\ (n = BufferKeep \/ n = Len(pending) - MaxFine)}

\* Does a chunk boundary after b bytes of stream fall inside a start code?
SplitsStartCode(stream, b) ==
    \E i \in 0..(Len(stream) - 1) :
        /\ StartCodeAt(stream, i)
        /\ i < b
        /\ b < i + (IF Elem(stream, i + 2) = 1 THEN 3 ELSE 4)

\* One 'data' event: decoder.decode(chunk) with the next n pending bytes.
ScanFeed(n) ==
    LET chunk == SubSeq(pending, 1, n)
    IN  \E s \in {decode(Start("chunk"), chunk, NoFault)} :
        /\ Commit(s)
        /\ events' = s.events
        /\ pending' = SubSeq(pending, n + 1, Len(pending))
        /\ received' = received \o chunk
        /\ handled' = handled \o UnitsOf(s.events)
        /\ dispatched' = dispatched \o CallsOf(s.events)
        /\ ghost' = [capped |-> ghost.capped \/ HasCompleteUnit(s.buffer),
                     truncated |-> ghost.truncated \/ HasEvent(s.events, "warn"),
                     split |-> ghost.split
                               \/ /\ source.units # << >>
                                  /\ SplitsStartCode(source.bytes, Len(received) + n)]
        /\ UNCHANGED <<source, input, session, runner, jpeg>>

ScanNext == \E n \in ChunkSizes : ScanFeed(n)

SpecScan == ScanInit /\ [][ScanNext]_vars

\* The units of a byte stream taken as a whole: from the first start code, each
\* unit runs to the next start code; what follows the last start code is not a
\* unit yet.  d.at is the start code reached, d.units the units before it.
delimitStep(stream, d) ==
    LET e == findNalStart(stream, d.at + 3)
    IN  IF e = 0 - 1
        THEN [d EXCEPT !.done = TRUE]
        ELSE [at |-> e, units |-> Append(d.units, Slice(stream, d.at, e)), done |-> FALSE]
RECURSIVE delimitRun(_, _, _)
delimitRun(stream, d, n) ==
    IF d.done \/ n <= 0 THEN d
    ELSE IF n = 1 THEN delimitStep(stream, d)
    ELSE delimitRun(stream, delimitRun(stream, d, n \div 2), n - (n \div 2))
Delimited(stream) ==
    LET s == findNalStart(stream, 0)
    IN  IF s = 0 - 1 THEN << >>
        ELSE delimitRun(stream, [at |-> s, units |-> << >>, done |-> FALSE],
                        Len(stream)).units

-----------------------------------------------------------------------------
(* The controller: the capture source produces units, the webview passes   *)
(* them on in chunks cut anywhere, the decode engine fails when it likes,  *)
(* and the stream is reset at any time.                                    *)

\* 67 42 00 1E and 67 64 00 28: two sequence parameter sets.
SPS_A == <<0, 0, 0, 1, 103, 66, 0, 30>>
SPS_B == <<0, 0, 1, 103, 100, 0, 40>>
\* 68 CE 3C 80 and 68 EE: two picture parameter sets.
PPS_A == <<0, 0, 1, 104, 206, 60, 128>>
PPS_B == <<0, 0, 0, 1, 104, 238>>
\* 65 AA BB CC: a keyframe; 41: a delta frame; 09: an access unit delimiter.
IDR == <<0, 0, 1, 101, 170, 187, 204>>
DELTA == <<0, 0, 0, 1, 65, 154>>
AUD == <<0, 0, 1, 9>>
Tokens == {SPS_A, SPS_B, PPS_A, PPS_B, IDR, DELTA, AUD}

\* What the claims need to know about the stream since the last reset:
\*   lastSps, lastPps  the latest SPS and PPS unit handled (Null: none yet)
\*   cfgOk             a configure call has succeeded
\*   armed             a configure call has succeeded and no decode call has
\*                     found the engine closed since
\*   live              a configure call has succeeded on the engine now held and
\*                     the engine has not been closed since
\*   swap              in the handler now running, an SPS or PPS arrived that
\*                     differs from the one stored, with the engine configured
\*   stale             the configure call made last threw, with an earlier
\*                     configuration still in force
\*   fresh             the bytes received that the accumulator should still hold
\*   window            fresh and the chunk of the decode() call that ran last
\* and, kept across resets:
\*   resetLive         a reset happened while the engine was configured and
\*                     the accumulator held bytes
\*   disposed          dispose() has been called
\* and, under SpecEngines only (byEngine), which engine instance is which:
\*   cfgEng            the engine on which the configure call that succeeded
\*                     last was made, while it is the one held (0: none)
\*   retired           the engine that the last reset found and closed (0: none)
\*   built             the engine that the last reset constructed (0: there
\*                     has been no reset; Undefined: it constructed none)
Ghost0 ==
    [lastSps |-> Null, lastPps |-> Null, cfgOk |-> FALSE, armed |-> FALSE, live |-> FALSE,
     swap |-> FALSE, stale |-> FALSE,
     byEngine |-> FALSE, cfgEng |-> 0, retired |-> 0, built |-> 0,
     resetLive |-> FALSE, disposed |-> FALSE, fresh |-> << >>, window |-> << >>]

\* The bookkeeping after one more event.
GhostStep(g, e) ==
    IF e.op = "unit" /\ e.type = 7
    THEN [g EXCEPT !.lastSps = e.data,
                   !.swap = @ \/ (g.live /\ g.lastSps # Null /\ g.lastSps # e.data)]
    ELSE IF e.op = "unit" /\ e.type = 8
    THEN [g EXCEPT !.lastPps = e.data,
                   !.swap = @ \/ (g.live /\ g.lastPps # Null /\ g.lastPps # e.data)]
    ELSE IF e.op = "configure" /\ e.ok = "ok"
    THEN [g EXCEPT !.cfgOk = TRUE, !.armed = TRUE, !.live = TRUE, !.stale = FALSE,
                   !.cfgEng = IF g.byEngine THEN e.eng ELSE @]
    ELSE IF e.op = "configure"
    THEN [g EXCEPT !.stale = g.armed]
    ELSE IF e.op = "decode" /\ e.ok = "closed"
    THEN [g EXCEPT !.armed = FALSE, !.live = FALSE, !.stale = FALSE]
    ELSE IF e.op = "new"
    THEN [g EXCEPT !.live = FALSE, !.cfgEng = 0,
                   !.built = IF @ = Undefined THEN e.eng ELSE @]
    ELSE IF e.op = "close"
    THEN [g EXCEPT !.live = FALSE, !.retired = IF g.byEngine THEN e.eng ELSE @]
    ELSE IF e.op = "fail" THEN [g EXCEPT !.live = FALSE]
    ELSE IF e.op \in {"clear", "dispose"}
    THEN [Ghost0 EXCEPT !.resetLive = g.resetLive \/ (g.live /\ e.data # << >>),
                        !.disposed = g.disposed \/ e.op = "dispose",
                        !.byEngine = g.byEngine,
                        !.built = IF g.byEngine THEN Undefined ELSE @]
    ELSE IF e.op \in {"chunk", "init"} THEN [g EXCEPT !.swap = FALSE]
    ELSE g

\* The bookkeeping when event number i of evs happens, from g at the start.
RECURSIVE GhostAt(_, _, _)
GhostAt(g, evs, i) ==
    IF i <= 1 THEN g ELSE GhostStep(GhostAt(g, evs, i - 1), evs[i - 1])
GhostAfter(g, evs) == GhostAt(g, evs, Len(evs) + 1)

\* The events of a handler, each with the bookkeeping at the moment it happens.
At(e, g) ==
    [op |-> e.op, eng |-> e.eng, data |-> e.data, kind |-> e.kind,
     type |-> e.type, ok |-> e.ok, at |-> [g EXCEPT !.fresh = << >>, !.window = << >>]]

RECURSIVE AnnotateFrom(_, _, _, _)
AnnotateFrom(g, evs, i, acc) ==
    IF i > Len(evs) THEN acc
    ELSE AnnotateFrom(GhostStep(g, evs[i]), evs, i + 1, Append(acc, At(evs[i], g)))

Annotate(g, evs) == AnnotateFrom(g, evs, 1, << >>)

NoSource == [units |-> << >>, bytes |-> << >>]

Init ==
    /\ isInitialized = Constructed.isInitialized
    /\ buffer = Constructed.buffer
    /\ sps = Constructed.sps
    /\ pps = Constructed.pps
    /\ isConfigured = Constructed.isConfigured
    /\ videoDecoder = Constructed.videoDecoder
    /\ engines = Constructed.engines
    /\ events = << >>
    /\ pending = << >>
    /\ received = << >>
    /\ handled = << >>
    /\ dispatched = << >>
    /\ source = NoSource
    /\ ghost = Ghost0
    /\ input = Input0
    /\ session = Session0
    /\ runner = Runner0
    /\ jpeg = Jpeg0

\* A handler may construct an engine only while the model has room for one;
\* SpecEngines (byEngine), whose streams are simpler, has room for one more.
Room(o) == o.ctor \/ Len(engines) < MaxEngines + (IF ghost.byEngine THEN 1 ELSE 0)

\* The handler returns: t is the decoder object it leaves, and fed the bytes
\* it was given.
Finish(t, fed) ==
    \E s \in {t} :
        /\ ~ghost.disposed
        /\ Commit(s)
        /\ events' = Annotate(ghost, s.events)
        /\ ghost' = LET g == GhostAfter(ghost, s.events)
                         w == IF isInitialized THEN g.fresh \o fed ELSE << >>
                     IN  [g EXCEPT !.window = w, !.fresh = SliceLast(w, Len(s.buffer))]
        /\ UNCHANGED <<received, handled, dispatched, source, input, session, runner, jpeg>>

\* decoder.init(canvas), once, when the webview has loaded.
DoInit(o) ==
    /\ ~isInitialized
    /\ Room(o)
    /\ Finish(init(Start("init"), o), << >>)
    /\ UNCHANGED pending

\* The failures open to decode(chunk): the engine is called only when the
\* accumulator and the chunk together hold a complete unit.
FeedOracles(chunk) ==
    IF isInitialized /\ HasCompleteUnit(buffer \o chunk) THEN Oracles ELSE {NoFault}

\* One 'data' event: decoder.decode(chunk); rest is what the pipe still holds.
Feed(chunk, rest, o) ==
    /\ o \in FeedOracles(chunk)
    /\ Room(o)
    /\ Finish(decode(Start("chunk"), chunk, o), chunk)
    /\ pending' = rest

\* The capture process writes unit u; it reaches decode() whole or cut in
\* two, the cut within its first MaxChunk bytes.  Here its first n bytes arrive.
FeedHead(u, n, o) ==
    /\ pending = << >>
    /\ Feed(SubSeq(u, 1, n), SubSeq(u, n + 1, Len(u)), o)

\* The rest of a unit that was cut arrives.
FeedTail(o) ==
    /\ pending # << >>
    /\ Feed(pending, << >>, o)

\* Where unit u may be cut: the number of bytes in its first chunk (inside the
\* start code, or not at all).
Cuts(u) == {n \in 1..Len(u) : n = MaxChunk - 1 \/ n = Len(u)}

\* decoder.clear(): the stream is restarted.  What the old process had still
\* to deliver is gone with it.
Clear(o) ==
    /\ isInitialized
    /\ Room(o)
    /\ Finish(clear(Start("clear"), o), << >>)
    /\ pending' = << >>

\* The engine reports a fatal error through its error callback (which only
\* logs): the engine held is closed from then on.
EngineError ==
    /\ ~ghost.disposed
    /\ videoDecoder # Null0
    /\ engines[videoDecoder] # "closed"
    /\ engines' = [engines EXCEPT ![videoDecoder] = "closed"]
    /\ events' = Annotate(ghost, <<Ev("fail", videoDecoder, << >>, "", 0, "ok")>>)
    /\ ghost' = [GhostStep(ghost, events'[1]) EXCEPT !.window = << >>]
    /\ UNCHANGED <<isInitialized, buffer, sps, pps, isConfigured, videoDecoder, pending,
                   received, handled, dispatched, source, input, session, runner, jpeg>>

\* The webview is unloaded: decoder.dispose(), after which the webview drops
\* the decoder object and calls it no more.
Dispose(o) ==
    /\ isInitialized
    /\ Room(o)
    /\ Finish(dispose(Start("dispose"), o), << >>)
    /\ pending' = << >>

Next ==
    \/ \E o \in CtorOracles : DoInit(o)
    \/ \E u \in Tokens : \E n \in Cuts(u) : \E o \in Oracles : FeedHead(u, n, o)
    \/ \E o \in Oracles : FeedTail(o)
    \/ \E o \in CtorOracles : Clear(o)
    \/ \E o \in CtorOracles : Dispose(o)
    \/ EngineError

Spec == Init /\ [][Next]_vars

-----------------------------------------------------------------------------
(* The controller again, with the bookkeeping that tells the engine        *)
(* instances apart.  The stream is one SPS, one PPS and frames, each unit  *)
(* arriving whole.                                                         *)

EngineTokens == {SPS_A, PPS_A, IDR, DELTA}

EnginesInit ==
    /\ isInitialized = Constructed.isInitialized
    /\ buffer = Constructed.buffer
    /\ sps = Constructed.sps
    /\ pps = Constructed.pps
    /\ isConfigured = Constructed.isConfigured
    /\ videoDecoder = Constructed.videoDecoder
    /\ engines = Constructed.engines
    /\ events = << >>
    /\ pending = << >>
    /\ received = << >>
    /\ handled = << >>
    /\ dispatched = << >>
    /\ source = NoSource
    /\ ghost = [Ghost0 EXCEPT !.byEngine = TRUE]
    /\ input = Input0
    /\ session = Session0
    /\ runner = Runner0
    /\ jpeg = Jpeg0

EnginesNext ==
    \/ \E o \in CtorOracles : DoInit(o)
    \/ \E u \in EngineTokens : \E o \in Oracles : FeedHead(u, Len(u), o)
    \/ \E o \in CtorOracles : Clear(o)
    \/ \E o \in CtorOracles : Dispose(o)
    \/ EngineError

SpecEngines == EnginesInit /\ [][EnginesNext]_vars

-----------------------------------------------------------------------------
(* The pointer, the animation-frame loop, the clock and the provider.      *)

InputInit ==
    /\ isInitialized = Constructed.isInitialized
    /\ buffer = Constructed.buffer
    /\ sps = Constructed.sps
    /\ pps = Constructed.pps
    /\ isConfigured = Constructed.isConfigured
    /\ videoDecoder = Constructed.videoDecoder
    /\ engines = Constructed.engines
    /\ events = << >>
    /\ pending = << >>
    /\ received = << >>
    /\ handled = << >>
    /\ dispatched = << >>
    /\ source = NoSource
    /\ ghost = Ghost0
    /\ input = Input0
    /\ session = Session0
    /\ runner = Runner0
    /\ jpeg = Jpeg0

DecoderIdle ==
    UNCHANGED <<isInitialized, buffer, sps, pps, isConfigured, videoDecoder, engines,
                pending, events, received, handled, dispatched, source, ghost>>

\* A step of the pointer model leaves the decoder and the session alone.
InputStep(p) ==
    /\ input' = p
    /\ DecoderIdle
    /\ UNCHANGED <<session, runner, jpeg>>

\* mousedown / touchstart on the canvas at x
MouseDown(x) ==
    /\ ~input.isTouching
    /\ input.gestures < MaxGestures
    /\ InputStep([handleMouseDown(input, x) EXCEPT !.gestures = @ + 1,
                                                      !.drags = 0, !.terminals = 0])

\* mousemove / touchmove to x
MouseMove(x) ==
    /\ input.isTouching
    /\ InputStep(handleMouseMove(input, x))

\* mouseup / mouseleave / touchend at x
MouseUp(x) ==
    /\ input.isTouching
    /\ \E p \in {handleMouseUp(input, x)} :
           InputStep([p EXCEPT
                        !.owed = IF Distance(x, input.touchStartX) > MoveThreshold
                                 THEN @ + 1 ELSE @,
                        !.terminals = @ + Len(p.outbox) - Len(input.outbox)])

\* The browser runs the animation-frame callback that was requested.
DragTick ==
    /\ input.dragLoopRunning
    /\ \E p \in {dragTick(input)} :
           InputStep([p EXCEPT !.drags = @ + Len(p.outbox) - Len(input.outbox)])

\* Time passes.
Tick ==
    /\ input.now + TimeStep <= MaxTime
    /\ InputStep([input EXCEPT !.now = @ + TimeStep])

\* The extension host delivers the oldest input message to the provider.
HandleInput ==
    /\ input.outbox # << >>
    /\ InputStep(handleInputMessage([input EXCEPT !.outbox = Tail(@)], Head(input.outbox)))

InputNext ==
    \/ \E x \in Positions : MouseDown(x)
    \/ \E x \in Positions : MouseMove(x)
    \/ \E x \in Positions : MouseUp(x)
    \/ DragTick
    \/ Tick
    \/ HandleInput

SpecInput == InputInit /\ [][InputNext]_vars

-----------------------------------------------------------------------------
(* The runner, the provider, the message queue and the webview's decoder.  *)

SessionInit ==
    /\ isInitialized = Ready.isInitialized
    /\ buffer = Ready.buffer
    /\ sps = Ready.sps
    /\ pps = Ready.pps
    /\ isConfigured = Ready.isConfigured
    /\ videoDecoder = Ready.videoDecoder
    /\ engines = Ready.engines
    /\ events = << >>
    /\ pending = << >>
    /\ received = << >>
    /\ handled = << >>
    /\ dispatched = << >>
    /\ source = NoSource
    /\ ghost = Ghost0
    /\ input = Input0
    /\ session = Session0
    /\ runner = Runner0
    /\ jpeg = Jpeg0

\* An action of the extension host: the webview's state stays as it is.
HostStep(r) ==
    /\ session' = r
    /\ DecoderIdle
    /\ UNCHANGED <<input, runner, jpeg>>

\* The user runs the start command: provider.start()
UserStart ==
    /\ session.userActs < MaxUserActs
    /\ CanStart(session)
    /\ HostStep(start(UserActed(session)))

\* The user runs the stop command: provider.stop()
UserStop ==
    /\ session.userActs < MaxUserActs
    /\ HostStep(stop(UserActed(session)))

\* The user runs the restart command: provider.restart() up to its wait
UserRestart ==
    /\ session.userActs < MaxUserActs
    /\ ~session.restarting
    /\ HostStep([Post(stop(UserActed(session)),
                      [type |-> "clear", status |-> "", data |-> << >>, proc |-> 0])
                    EXCEPT !.restarting = TRUE])

\* restart() after its wait: await this.start()
RestartResume ==
    /\ session.restarting
    /\ CanStart(session)
    /\ HostStep(start([session EXCEPT !.restarting = FALSE]))

\* The capture process writes to its stdout: emit('frame', data)
ProcessData ==
    /\ session.listening # 0
    /\ session.toEmit # << >>
    /\ HostStep(Post([session EXCEPT !.toEmit = Tail(@)],
                     [type |-> "frame", status |-> "", data |-> Head(session.toEmit),
                      proc |-> session.listening]))

\* The capture process exits with the given code.
ProcessExit(code) ==
    /\ session.listening # 0
    /\ HostStep(onExit(session, code))

\* A timer set by the exit listener runs: this.start()
TimerFire ==
    /\ session.timers > 0
    /\ CanStart(session)
    /\ HostStep(start([session EXCEPT !.timers = @ - 1]))

\* The device is plugged in or out.
Plug ==
    /\ session.plugs < MaxPlugs
    /\ HostStep([session EXCEPT !.device = ~@, !.plugs = @ + 1])

\* The webview takes the oldest message: handleMessage(event)
Deliver ==
    /\ session.channel # << >>
    /\ LET m == Head(session.channel)
           r == [session EXCEPT !.channel = Tail(@)]
       IN  IF m.type = "frame"
           THEN \E s \in {decode(Start("chunk"), m.data, NoFault)} :
                    /\ Commit(s)
                    /\ events' = s.events
                    /\ session' = [r EXCEPT !.lastProc = m.proc,
                                            !.mixed = @ \/ r.lastProc \notin {0, m.proc}]
           ELSE IF m.type = "clear" \/ (m.type = "status" /\ m.status = "stopped")
           THEN \E s \in {clear(Start("clear"), NoFault)} :
                    /\ Commit(s)
                    /\ events' = s.events
                    /\ session' = [r EXCEPT !.lastProc = 0]
           ELSE /\ session' = r
                /\ UNCHANGED <<isInitialized, buffer, sps, pps, isConfigured, videoDecoder,
                               engines, events>>
    /\ UNCHANGED <<pending, received, handled, dispatched, source, ghost, input, runner, jpeg>>

SessionNext ==
    \/ UserStart
    \/ UserStop
    \/ UserRestart
    \/ RestartResume
    \/ ProcessData
    \/ \E code \in {0, 1} : ProcessExit(code)
    \/ TimerFire
    \/ Plug
    \/ Deliver

SpecSession == SessionInit /\ [][SessionNext]_vars

-----------------------------------------------------------------------------
(* The runner on its own: calls from the provider, the capture process,    *)
(* the restart timer and the device commands.                              *)

RunnerInit ==
    /\ isInitialized = Ready.isInitialized
    /\ buffer = Ready.buffer
    /\ sps = Ready.sps
    /\ pps = Ready.pps
    /\ isConfigured = Ready.isConfigured
    /\ videoDecoder = Ready.videoDecoder
    /\ engines = Ready.engines
    /\ events = << >>
    /\ pending = << >>
    /\ received = << >>
    /\ handled = << >>
    /\ dispatched = << >>
    /\ source = NoSource
    /\ ghost = Ghost0
    /\ input = Input0
    /\ session = Session0
    /\ runner = Runner0
    /\ jpeg = Jpeg0

\* A step of the runner leaves the webview alone.
RunnerStep(r) ==
    /\ runner' = r
    /\ DecoderIdle
    /\ UNCHANGED <<input, session, jpeg>>

\* May the provider call the runner once more?
CanCall == ~runner.disposed /\ runner.calls < MaxCalls

\* provider.start(): await this.scrcpyRunner.start(), up to start()'s await
CallStart ==
    /\ CanCall
    /\ RunnerStep(beginStart([runner EXCEPT !.calls = @ + 1, !.halted = FALSE]))

\* The pre-check of a suspended start() resolves or rejects.
StartResumes(ok) ==
    /\ runner.awaiting > 0
    /\ ok => runner.spawned < MaxSpawns
    /\ RunnerStep(resumeStart(runner, ok))

\* provider.stop(): this.scrcpyRunner.stop()
CallStop ==
    /\ CanCall
    /\ RunnerStep([stopProcess([runner EXCEPT !.calls = @ + 1]) EXCEPT !.halted = TRUE])

\* provider.dispose(): this.scrcpyRunner.dispose()
CallDispose ==
    /\ CanCall
    /\ RunnerStep([disposeRunner([runner EXCEPT !.calls = @ + 1]) EXCEPT !.halted = TRUE])

\* A capture process exits.
CaptureExit(p, code) ==
    /\ p \in runner.alive
    /\ RunnerStep(exitListener(runner, p, code))

\* A capture process fails to spawn.
CaptureError(p) ==
    /\ p \in runner.alive \cap runner.wired
    /\ RunnerStep(errorListener(runner, p))

\* A timer set by the exit listener runs: this.start(), up to its await
RestartTimer ==
    /\ runner.timers > 0
    /\ RunnerStep(beginStart([runner EXCEPT !.timers = @ - 1]))

\* An input message reaches the provider: tap(), swipe() or longPress()
Command ==
    /\ ~runner.disposed
    /\ runner.issued < MaxCommands
    /\ RunnerStep(executeAdbCommand(runner))

CommandExits(c, code) ==
    /\ c \in runner.procs \cup runner.dying
    /\ RunnerStep(commandExit(runner, c, code))

CommandFails(c) ==
    /\ c \in runner.procs \cap runner.cwired
    /\ RunnerStep(commandError(runner, c))

CommandTimesOut(c) ==
    /\ c \in runner.ctimers
    /\ RunnerStep(commandTimeout(runner, c))

RunnerNext ==
    \/ CallStart
    \/ \E ok \in BOOLEAN : StartResumes(ok)
    \/ CallStop
    \/ CallDispose
    \/ \E p \in 1..MaxSpawns : \E code \in {0, 1} : CaptureExit(p, code)
    \/ \E p \in 1..MaxSpawns : CaptureError(p)
    \/ RestartTimer
    \/ Command
    \/ \E c \in 1..MaxCommands : \E code \in {0, 1} : CommandExits(c, code)
    \/ \E c \in 1..MaxCommands : CommandFails(c)
    \/ \E c \in 1..MaxCommands : CommandTimesOut(c)

SpecRunner == RunnerInit /\ [][RunnerNext]_vars

-----------------------------------------------------------------------------
(* The JPEG decoder in the webview: frames arrive, the image element loads *)
(* them or fails to, the stream is cleared.                                *)

JpegSpecInit ==
    /\ isInitialized = Ready.isInitialized
    /\ buffer = Ready.buffer
    /\ sps = Ready.sps
    /\ pps = Ready.pps
    /\ isConfigured = Ready.isConfigured
    /\ videoDecoder = Ready.videoDecoder
    /\ engines = Ready.engines
    /\ events = << >>
    /\ pending = << >>
    /\ received = << >>
    /\ handled = << >>
    /\ dispatched = << >>
    /\ source = NoSource
    /\ ghost = Ghost0
    /\ input = Input0
    /\ session = Session0
    /\ runner = Runner0
    /\ jpeg = Jpeg0

\* A step of the JPEG decoder leaves everything else alone.
JpegStep(j) ==
    /\ jpeg' = j
    /\ DecoderIdle
    /\ UNCHANGED <<input, session, runner>>

\* The webview has loaded: decoder.init(canvas)
JpegInit ==
    /\ ~jpeg.isInitialized
    /\ JpegStep(jpegInit(jpeg))

\* A 'frame' message: decoder.decode(frameData)
JpegDecode ==
    /\ jpeg.calls < MaxFrames
    /\ JpegStep(jpegDecode([jpeg EXCEPT !.calls = @ + 1]))

\* The image element has loaded its source: img.onload
ImageLoads ==
    /\ jpeg.inflight # {}
    /\ JpegStep(renderFrame(jpeg))

\* The image element could not load its source: img.onerror
ImageFails ==
    /\ jpeg.inflight # {}
    /\ JpegStep(onerror(jpeg))

\* A 'clear' or 'stopped' message: decoder.clear()
JpegClear ==
    /\ jpeg.clears < MaxClears
    /\ JpegStep(jpegClear([jpeg EXCEPT !.clears = @ + 1]))

JpegNext ==
    \/ JpegInit
    \/ JpegDecode
    \/ ImageLoads
    \/ ImageFails
    \/ JpegClear

SpecJpeg == JpegSpecInit /\ [][JpegNext]_vars

-----------------------------------------------------------------------------
(* ffmpeg writes its output and the runner receives it in chunks.          *)

RECURSIVE JpegStreamsOf(_)
JpegStreamsOf(n) ==
    IF n = 0 THEN {<< >>}
    ELSE LET shorter == JpegStreamsOf(n - 1)
         IN  shorter \cup {Append(s, b) : s \in {t \in shorter : Len(t) = n - 1}, b \in JpegAlphabet}

\* Pieces of longer outputs: a smallest frame, one followed by a byte of no
\* frame, one with a byte inside, an end marker with no start, and the start
\* of a frame longer than the buffer is allowed to grow.
PieceCatalogue ==
    { <<255, 216, 255, 217>>,
      <<255, 216, 255, 217, 0>>,
      <<255, 216, 0, 255, 217>>,
      <<255, 217>>,
      <<255, 216, 0, 0, 0>> }

RECURSIVE Assembled(_)
Assembled(n) ==
    IF n = 0 THEN {<< >>}
    ELSE LET shorter == Assembled(n - 1)
         IN  shorter \cup {s \o p : s \in shorter, p \in PieceCatalogue}

JpegStreams == JpegStreamsOf(MaxJpegStream) \cup Assembled(MaxPieces)

\* The state after spawn: an empty buffer, and what ffmpeg is going to write.
FramesInit ==
    /\ isInitialized = Ready.isInitialized
    /\ buffer = Ready.buffer
    /\ sps = Ready.sps
    /\ pps = Ready.pps
    /\ isConfigured = Ready.isConfigured
    /\ videoDecoder = Ready.videoDecoder
    /\ engines = Ready.engines
    /\ events = << >>
    /\ pending = << >>
    /\ received = << >>
    /\ handled = << >>
    /\ dispatched = << >>
    /\ source = NoSource
    /\ ghost = Ghost0
    /\ input = Input0
    /\ session = Session0
    /\ jpeg = Jpeg0
    /\ \E s \in JpegStreams : runner = [Runner0 EXCEPT !.stream = s]

\* A 'data' event with the next n bytes of ffmpeg's output.
StdoutData(n) ==
    /\ runner.fed < Len(runner.stream)
    /\ LET hi == IF runner.fed + n > Len(runner.stream) THEN Len(runner.stream)
                 ELSE runner.fed + n
       IN  RunnerStep(onStdoutData(runner, SubSeq(runner.stream, runner.fed + 1, hi)))

FramesNext == \E n \in 1..MaxData : StdoutData(n)

SpecFrames == FramesInit /\ [][FramesNext]_vars

-----------------------------------------------------------------------------
(* The scanner's properties, checked under SpecScan.                       *)

IsSuffix(b, a) == Len(b) <= Len(a) /\ SliceLast(a, Len(b)) = b

\* decode() given the whole of stream as one chunk, by a fresh decoder.
OneChunk(stream) == decode(Ready, stream, NoFault)
OneChunkUnits(stream) == UnitsOf(OneChunk(stream).events)
OneChunkClean(stream) ==
    \E s \in {OneChunk(stream)} : ~HasCompleteUnit(s.buffer) /\ ~HasEvent(s.events, "warn")

\* The unit without its start code, found by looking at the unit itself.
Stripped(u) ==
    IF Len(u) >= 3 /\ SubSeq(u, 1, 3) = <<0, 0, 1>> THEN SubSeq(u, 4, Len(u))
    ELSE IF Len(u) >= 4 /\ SubSeq(u, 1, 4) = <<0, 0, 0, 1>> THEN SubSeq(u, 5, Len(u))
    ELSE u

\* Is a a subsequence of b: a's elements, in order, each at a place of its own?
RECURSIVE Embeds(_, _, _, _)
Embeds(a, b, i, j) ==
    IF i > Len(a) THEN TRUE
    ELSE IF j > Len(b) THEN FALSE
    ELSE IF a[i] = b[j] THEN Embeds(a, b, i + 1, j + 1)
    ELSE Embeds(a, b, i, j + 1)
IsSubsequence(a, b) == Embeds(a, b, 1, 1)

C3_AsStated == pending = << >> /\ source.units # << >> => handled = source.units

\* C3 amended: a stream of k units fed completely, in any chunking, has
\* yielded exactly its first k - 1 units, byte for byte, and the k-th is
\* held whole in the accumulator (no start code follows it yet); provided no
\* decode() call stopped at its limit of 100 units or cut the accumulator.
C3_AllButLastUnit ==
    pending = << >> /\ source.units # << >> /\ ~ghost.capped /\ ~ghost.truncated
    => /\ handled = SubSeq(source.units, 1, Len(source.units) - 1)
       /\ buffer = source.units[Len(source.units)]

\* C3's case: three units or more, fed completely, a start code split
\* between two chunks.
C3_Witness ==
    /\ pending = << >>
    /\ Len(source.units) >= 3
    /\ ghost.split /\ ~ghost.capped /\ ~ghost.truncated
    /\ Len(handled) = Len(source.units) - 1

\* C8: overflow bound.  Whenever decode() has returned, the accumulator
\* holds at most 512 KiB, and what it holds is a suffix of the bytes
\* received: on overflow the oldest bytes are the ones discarded.
C8_OverflowBound == Len(buffer) <= BufferCap /\ IsSuffix(buffer, received)

\* C8's case: more than 512 KiB received, the accumulator cut and not empty.
C8_Witness ==
    /\ ghost.truncated
    /\ Len(received) > BufferCap
    /\ buffer # << >>
    /\ Len(buffer) < Len(received)

\* C10: dispatch order.  The payloads passed to videoDecoder.decode, over
\* all decode() calls so far, are in order the payloads of units delimited
\* in the bytes received, each unit used at most once.
C10_DispatchOrder ==
    LET units == Delimited(received)
    IN  IsSubsequence([i \in 1..Len(dispatched) |-> SubSeq(dispatched[i], 5, Len(dispatched[i]))],
                      [i \in 1..Len(units) |-> Stripped(units[i])])

\* C10's case: several different payload units dispatched, over several
\* decode() calls, after units that were not dispatched.
C10_Witness ==
    /\ Len(dispatched) >= 4
    /\ dispatched[1] # dispatched[2]
    /\ Len(handled) > Len(dispatched) + 1
    /\ ghost.split

-----------------------------------------------------------------------------
(* The controller's properties, checked under Spec.  They are stated over  *)
(* the events of the handler that ran last; events[i].at is the            *)
(* bookkeeping at the moment event i happened.                             *)

NextIs(i, op) == i < Len(events) /\ events[i + 1].op = op
IsPayloadAt(i) == events[i].op = "unit" /\ events[i].type \in {1, 5}
Forwarded(i) == NextIs(i, "decode")
PairConfigured(g) == g.lastSps # Null /\ g.lastPps # Null /\ g.cfgOk

IsSlice(a, b) == \E k \in 0..(Len(b) - Len(a)) : SubSeq(b, k + 1, k + Len(a)) = a

\* The record of section 6 for SPS payload S and PPS payload P.
RecordOf(S, P) ==
    <<1, S[2], S[3], S[4], 255, 225, (Len(S) \div 256) % 256, Len(S) % 256>>
    \o S \o <<1, (Len(P) \div 256) % 256, Len(P) % 256>> \o P

\* C1 as stated: configuration gating.  A payload unit (type 1 or 5) is
\* passed to videoDecoder.decode if and only if, when it is delimited, an
\* SPS and a PPS have been received and a configure call has succeeded.
C1_AsStated ==
    \A i \in DOMAIN events :
        IsPayloadAt(i) => (Forwarded(i) <=> PairConfigured(events[i].at))

\* C1 amended: a payload unit delimited before an SPS and a PPS have been
\* received and a configure call has succeeded is never passed to
\* videoDecoder.decode; once that has happened every later payload unit is
\* passed on, until a videoDecoder.decode call fails on a closed engine (or
\* the decoder is reset), after which payload units are dropped again until
\* a configure call succeeds.
C1_Gating ==
    \A i \in DOMAIN events :
        IsPayloadAt(i) =>
            /\ Forwarded(i) => PairConfigured(events[i].at)
            /\ Forwarded(i) <=> events[i].at.armed

\* C1's case: a payload unit arrives after a successful configure call and
\* is passed on.
C1_Witness ==
    \E i \in DOMAIN events :
        IsPayloadAt(i) /\ PairConfigured(events[i].at) /\ Forwarded(i)

\* C4: Annex-B to AVCC.  Every videoDecoder.decode call carries the one
\* unit just handed to handleNalUnit: four bytes that are the big-endian
\* length L of the rest, then L bytes that are the unit without the start
\* code it begins with (three or four bytes); 00 00 01 65 AA BB CC becomes
\* 00 00 00 04 65 AA BB CC.
C4_AvccConversion ==
    \A i \in DOMAIN events :
        events[i].op = "decode" =>
            /\ i > 1
            /\ events[i - 1].op = "unit"
            /\ LET u == events[i - 1].data
                   d == events[i].data
                   L == Len(d) - 4
               IN  /\ L >= 1
                   /\ SubSeq(d, 1, 4) = <<(L \div 16777216) % 256, (L \div 65536) % 256,
                                           (L \div 256) % 256, L % 256>>
                   /\ Stripped(u) # u
                   /\ SubSeq(d, 5, Len(d)) = Stripped(u)
                   /\ u = <<0, 0, 1, 101, 170, 187, 204>>
                      => d = <<0, 0, 0, 4, 101, 170, 187, 204>>

\* C4's case: the unit of the example is passed to the engine.
C4_Witness ==
    \E i \in DOMAIN events :
        /\ events[i].op = "decode"
        /\ events[i].data = <<0, 0, 0, 4, 101, 170, 187, 204>>

\* C5: the configuration record.  Every videoDecoder.configure call is given
\* the 11 + N + M bytes 01, S[1], S[2], S[3], FF, E1, N (two bytes), S, 01,
\* M (two bytes), P, where S and P are the latest SPS and PPS received,
\* without their start codes, and N and M their lengths.
C5_RecordLayout ==
    \A i \in DOMAIN events :
        events[i].op = "configure" =>
            LET g == events[i].at
                S == Stripped(g.lastSps)
                P == Stripped(g.lastPps)
            IN  /\ g.lastSps # Null /\ g.lastPps # Null
                /\ Len(events[i].data) = 11 + Len(S) + Len(P)
                /\ events[i].data = RecordOf(S, P)

\* C5's case: the pair of the spec's example is configured.
C5_Witness ==
    \E i \in DOMAIN events :
        /\ events[i].op = "configure"
        /\ events[i].data = <<1, 66, 0, 30, 255, 225, 0, 4, 103, 66, 0, 30,
                              1, 0, 4, 104, 206, 60, 128>>

\* C6 as stated: one configure call per distinct pair.  A unit that does not
\* make a new pair current - an SPS or PPS byte-identical to the one stored,
\* or a payload unit - is followed by no videoDecoder.configure call.
C6_AsStated ==
    \A i \in DOMAIN events :
        /\ events[i].op = "unit"
        /\ \/ events[i].type \in {1, 5}
           \/ events[i].type = 7 /\ events[i].data = events[i].at.lastSps
           \/ events[i].type = 8 /\ events[i].data = events[i].at.lastPps
        => ~NextIs(i, "configure")

\* C7: configuration replacement.  When, after a pair was configured, an SPS
\* (a PPS) arrives that differs from the one stored, a configure call follows
\* at once, with the record of the new unit and the latest PPS (SPS).
C7_Replacement ==
    \A i \in DOMAIN events :
        LET e == events[i]
            g == e.at
        IN  /\ e.op = "unit" /\ e.type = 7 /\ PairConfigured(g) /\ e.data # g.lastSps
               => /\ NextIs(i, "configure")
                  /\ events[i + 1].data = RecordOf(Stripped(e.data), Stripped(g.lastPps))
            /\ e.op = "unit" /\ e.type = 8 /\ PairConfigured(g) /\ e.data # g.lastPps
               => /\ NextIs(i, "configure")
                  /\ events[i + 1].data = RecordOf(Stripped(g.lastSps), Stripped(e.data))

\* C7's case: a second, different SPS arrives while the engine is configured
\* and the engine is configured again, with another record than before.
C7_Witness ==
    \E i \in DOMAIN events :
        /\ events[i].op = "unit" /\ events[i].type = 7
        /\ events[i].at.live
        /\ events[i].data # events[i].at.lastSps
        /\ NextIs(i, "configure")
        /\ events[i + 1].ok = "ok"
        /\ events[i + 1].data #
               RecordOf(Stripped(events[i].at.lastSps), Stripped(events[i].at.lastPps))

\* C9: reset clears all state.  When clear() has returned the accumulator is
\* empty, no SPS and no PPS is stored and isConfigured is false; a payload
\* unit is passed on only if an SPS and a PPS have been received and a
\* configure call has succeeded since the last reset; and the accumulator
\* and every unit delimited hold only bytes received since the last reset.
C9_ResetClears ==
    /\ events # << >> /\ events[1].op = "clear"
       => buffer = << >> /\ sps = Null /\ pps = Null /\ ~isConfigured
    /\ \A i \in DOMAIN events :
           IsPayloadAt(i) /\ ~PairConfigured(events[i].at) => ~Forwarded(i)
    /\ buffer = ghost.fresh
    /\ \A i \in DOMAIN events :
           events[i].op = "unit" => IsSlice(events[i].data, ghost.window)

\* C9's case: after a reset of a configured decoder with bytes buffered, a
\* fresh SPS has arrived but no PPS yet, and a payload unit is dropped.
C9_Witness ==
    /\ ghost.resetLive
    /\ \E i \in DOMAIN events :
           /\ IsPayloadAt(i)
           /\ events[i].at.lastSps # Null
           /\ events[i].at.lastPps = Null
           /\ ~Forwarded(i)

\* C11 as stated: configuration before payload.  When a payload unit is
\* passed to videoDecoder.decode, the configure call made for the latest SPS
\* or PPS before it has succeeded: no unit is decoded under a configuration
\* older than the latest pair.
C11_AsStated ==
    \A i \in DOMAIN events :
        events[i].op = "decode" => ~events[i].at.stale

\* C12: reset never throws.  clear() runs to its end in every state - before
\* any data, unconfigured, configured, after an engine error, with no engine
\* or a closed one, and when close() or the VideoDecoder constructor throws:
\* no exception leaves it, the engine it found is closed, and the decoder
\* holds a new, unconfigured engine, or none if the constructor threw.
C12_ResetNeverThrows ==
    events # << >> /\ events[1].op = "clear"
    => /\ ~HasEvent(events, "throw")
       /\ \A i \in DOMAIN events :
              events[i].op = "close" => engines[events[i].eng] = "closed"
       /\ \/ videoDecoder = Null0 /\ ~HasEvent(events, "new")
          \/ /\ events[Len(events)].op = "new"
             /\ videoDecoder = events[Len(events)].eng
             /\ engines[videoDecoder] = "unconfigured"

\* C12's case: clear() is called after an engine error, close() throws on the
\* closed engine and the constructor throws as well.
C12_Witness ==
    /\ events # << >> /\ events[1].op = "clear"
    /\ \E i \in DOMAIN events : events[i].op = "close" /\ events[i].ok = "throws"
    /\ ~HasEvent(events, "new")
    /\ videoDecoder = Null0

\* C13 as stated: the idle state.  A decode(chunk) before init() changes
\* nothing and calls no engine, and after dispose() no engine is held.
C13_AsStated ==
    /\ events # << >> /\ events[1].op = "chunk" /\ ~isInitialized
       => /\ Len(events) = 1
          /\ buffer = << >> /\ sps = Null /\ pps = Null /\ ~isConfigured
    /\ ghost.disposed => videoDecoder = Null0

\* C16 as stated: a configure failure keeps the controller unconfigured.
\* When videoDecoder.configure has thrown, isConfigured is false, and no
\* payload unit is passed on until a configure call succeeds.
C16_AsStated ==
    \A i \in DOMAIN events :
        /\ events[i].op = "configure" /\ events[i].ok = "throws" => ~isConfigured
        /\ IsPayloadAt(i) /\ events[i].at.stale => ~Forwarded(i)

\* C17 as stated: insufficient configuration is rejected.  No configure call
\* is made while the SPS or the PPS stored is, without its start code,
\* shorter than 4 bytes.
C17_AsStated ==
    \A i \in DOMAIN events :
        events[i].op = "configure" =>
            /\ Len(Stripped(events[i].at.lastSps)) >= 4
            /\ Len(Stripped(events[i].at.lastPps)) >= 4

\* C18 as stated: fatal decode error.  When the engine has reported itself
\* closed, through its error callback or by videoDecoder.decode throwing
\* 'closed', the decoder holds another engine than the one that failed and
\* isConfigured is false; and a payload unit is passed only to an engine on
\* which a configure call has succeeded and which has not closed since.
C18_AsStated ==
    /\ events # << >> /\ events[1].op = "fail"
       => ~isConfigured /\ videoDecoder # events[1].eng
    /\ \A i \in DOMAIN events :
           /\ events[i].op = "decode" /\ events[i].ok = "closed" => ~isConfigured
           /\ events[i].op = "decode" => events[i].at.live

-----------------------------------------------------------------------------
(* The pointer's properties, checked under SpecInput.                      *)

IsSwipe(m) == m.action = "swipe"

\* C14 as stated: swipe is click-and-drag.  Every input message the webview
\* posts is acted on by handleInputMessage, and when the pointer is up and
\* every message has been handled the runner has executed a swipe for every
\* gesture that moved more than 10 px between pointer-down and pointer-up.
C14_AsStated ==
    /\ input.dropped = 0
    /\ ~input.isTouching /\ input.outbox = << >>
       => Len(SelectSeq(input.executed, IsSwipe)) >= input.owed

-----------------------------------------------------------------------------
(* The session's properties, checked under SpecSession.                    *)

\* C15 as stated: auto-restart.  After the capture process has exited
\* unexpectedly, while the runner is not running again and the user has given
\* no command, a start attempt is pending whenever a device is available -
\* also after the first attempt has failed - so that the runner gets back to
\* running by itself.
C15_AsStated ==
    session.crashed /\ session.device => session.isRunning \/ session.timers > 0

\* C20 as stated: the decoder is reset whenever the capture process is
\* restarted.  No chunk reaches decode() after a chunk of another capture
\* process without a clear() between, and the accumulator and the SPS and PPS
\* stored never hold bytes of two capture processes.
C20_AsStated ==
    /\ ~session.mixed
    /\ Cardinality(TagsOf(buffer) \cup TagsOf(sps) \cup TagsOf(pps)) <= 1

-----------------------------------------------------------------------------
(* The engine instances, checked under SpecEngines.                        *)

IsCall(e) == e.op \in {"configure", "decode"}

\* C21 as stated: the engine is never reused across a reset.  After a
\* clear() every configure and decode call goes to the instance that this
\* clear() constructed.
C21_AsStated ==
    \A i \in DOMAIN events :
        IsCall(events[i]) /\ events[i].at.built # 0 => events[i].eng = events[i].at.built

\* C21 amended: after clear() the engine it found is closed and receives no
\* configure or decode call any more; every later call goes to the instance
\* that this clear() constructed or, once a decode call has found that one
\* closed, to an instance constructed after it.
C21_NoReuse ==
    /\ ghost.retired # 0 => engines[ghost.retired] = "closed"
    /\ \A i \in DOMAIN events :
           IsCall(events[i]) =>
               /\ events[i].eng # events[i].at.retired
               /\ events[i].at.built # 0
                  => events[i].at.built # Undefined /\ events[i].eng >= events[i].at.built

\* C21's case: a reset has closed an engine and constructed another, and a
\* payload unit is decoded by the new one.
C21_Witness ==
    \E i \in DOMAIN events :
        /\ events[i].op = "decode" /\ events[i].ok = "ok"
        /\ events[i].at.retired # 0
        /\ events[i].eng = events[i].at.built

C22_AsStated ==
    \A i \in DOMAIN events : \A j \in DOMAIN events :
        /\ i < j
        /\ events[i].op = "configure" /\ events[i].ok = "ok"
        /\ events[j].op = "decode" /\ events[j].kind = "delta"
        => \E k \in (i + 1) .. (j - 1) :
               events[k].op = "decode" /\ events[k].kind = "key"

C24_Conservation ==
    ~ghost.truncated
    => LET first == findNalStart(received, 0)
       IN  IF first = 0 - 1
           THEN handled = << >> /\ buffer = received
           ELSE SliceFrom(received, first) = Flatten(handled) \o buffer

\* Bytes ahead of the first start code were received, units were dispatched
\* over several chunks and the accumulator still holds an unterminated rest.
C24_Witness ==
    /\ ~ghost.truncated
    /\ findNalStart(received, 0) > 0
    /\ Len(handled) >= 2
    /\ Len(UnitsOf(events)) < Len(handled)
    /\ buffer # << >>

\* C25 as stated, its last part: a buffer with no start code yields zero units
\* and is kept whole.
C25_AsStated ==
    findNalStart(received, 0) = 0 - 1 => handled = << >> /\ buffer = received

\* C25 amended: a call that passed units to handleNalUnit leaves the
\* accumulator beginning with the start code that ended the last of them, the
\* bytes from there on kept for the next chunk; a stream with no start code
\* yields zero units and is kept whole until it outgrows the cap, after which
\* its newest bytes are kept.
C25_RemainderRetained ==
    /\ UnitsOf(events) # << >> /\ ~HasEvent(events, "warn") => findNalStart(buffer, 0) = 0
    /\ findNalStart(received, 0) = 0 - 1
       => /\ handled = << >>
          /\ IF ghost.truncated
             THEN IsSuffix(buffer, received) /\ Len(buffer) >= BufferKeep
             ELSE buffer = received

\* A call dispatched a unit and kept the start code and the bytes after it.
C25_Witness ==
    /\ UnitsOf(events) # << >>
    /\ findNalStart(buffer, 0) = 0
    /\ Len(buffer) >= 5
    /\ IsSuffix(buffer, received)

\* The length of the start code a unit begins with, read off its bytes; 0 when
\* it begins with none.
PresentLen(u) ==
    IF Len(u) >= 3 /\ SubSeq(u, 1, 3) = <<0, 0, 1>> THEN 3
    ELSE IF Len(u) >= 4 /\ SubSeq(u, 1, 4) = <<0, 0, 0, 1>> THEN 4
    ELSE 0

\* C26: every unit passed to handleNalUnit begins at offset 0 with a start
\* code; the length used to read its header byte and to strip it is the length
\* of the start code present, in streams mixing both forms and for the stored
\* SPS and PPS; the first unit dispatched begins at the first start code of
\* the stream, so no byte ahead of it is part of a unit.
C26_StartCodeLength ==
    /\ \A i \in DOMAIN events :
           /\ events[i].op = "unit"
              => /\ PresentLen(events[i].data) # 0
                 /\ startCodeLenOf(events[i].data) = PresentLen(events[i].data)
                 /\ events[i].type = And1F(Elem(events[i].data, PresentLen(events[i].data)))
           /\ events[i].op = "decode"
              => SliceFrom(events[i].data, 4)
                 = SliceFrom(events[i - 1].data, PresentLen(events[i - 1].data))
    /\ sps # Null => PresentLen(sps) # 0 /\ startCodeLenOf(sps) = PresentLen(sps)
    /\ pps # Null => PresentLen(pps) # 0 /\ startCodeLenOf(pps) = PresentLen(pps)
    /\ handled # << >>
       => LET first == findNalStart(received, 0)
          IN  Slice(received, first, first + Len(handled[1])) = handled[1]

\* A stream joined mid-unit has had units with three-byte and with four-byte
\* start codes dispatched, parameter sets stored and a frame forwarded.
C26_Witness ==
    /\ findNalStart(received, 0) > 0
    /\ \E i \in DOMAIN handled : PresentLen(handled[i]) = 3
    /\ \E i \in DOMAIN handled : PresentLen(handled[i]) = 4
    /\ sps # Null /\ pps # Null /\ PresentLen(sps) # PresentLen(pps)
    /\ HasEvent(events, "decode")

\* One more run of the loop body on c.s, unless the loop has ended; c.ok
\* records that every run so far that did not break left the accumulator
\* strictly shorter, and the breaking one no longer.
ShrinkStep(c) ==
    IF c.s.brk \/ ~c.ok THEN c
    ELSE LET t == loopBody(c.s, NoFault)
         IN  [s |-> t,
              ok |-> IF t.brk THEN Len(t.buffer) <= Len(c.s.buffer)
                     ELSE Len(t.buffer) < Len(c.s.buffer)]

\* n runs, composed by halves.
RECURSIVE ShrinkRun(_, _)
ShrinkRun(c, n) ==
    IF n <= 0 \/ c.s.brk \/ ~c.ok THEN c
    ELSE IF n = 1 THEN ShrinkStep(c)
    ELSE ShrinkRun(ShrinkRun(c, n \div 2), n - (n \div 2))

ShrinksFrom(s, n) == ShrinkRun([s |-> s, ok |-> TRUE], n).ok

\* C29: a decode() call runs the loop of processBuffer at most maxIterations
\* times, and for every accumulator reached and every chunk that may follow,
\* each run of the loop body that does not break strictly shortens the
\* accumulator.
C29_Terminates ==
    /\ Len(UnitsOf(events)) <= maxIterations
    /\ \A n \in ChunkSizes :
           ShrinksFrom([Start("chunk") EXCEPT !.buffer = buffer \o SubSeq(pending, 1, n)],
                       maxIterations)

\* A call that ran the loop to its limit and returned with units still
\* buffered.
C29_Witness ==
    /\ Len(UnitsOf(events)) = maxIterations
    /\ HasCompleteUnit(buffer)
    /\ pending = << >>

\* The low five bits of the byte that follows a unit's start code (0 for a
\* unit that ends with its start code).
LowFive(u) == And1F(Elem(u, PresentLen(u)))

\* The last unit of us whose low five header bits are t, Null when none is.
LastOfType(us, t) ==
    LET at == {i \in DOMAIN us : LowFive(us[i]) = t}
    IN  IF at = {} THEN Null ELSE us[CHOOSE i \in at : \A k \in at : k <= i]

\* C27: a unit is classified by the low five bits of its header byte alone: 7
\* is stored as SPS and 8 as PPS, a decode call is made only for 5, as a 'key'
\* chunk, and for 1, as a 'delta' chunk, a configure call only for 7 and 8,
\* and a unit of any other type is followed by no call and changes none of
\* sps, pps and isConfigured.
C27_Classification ==
    /\ \A i \in DOMAIN events :
           /\ events[i].op = "unit" => events[i].type = LowFive(events[i].data)
           /\ events[i].op = "decode"
              => /\ events[i - 1].op = "unit"
                 /\ \/ LowFive(events[i - 1].data) = 5 /\ events[i].kind = "key"
                    \/ LowFive(events[i - 1].data) = 1 /\ events[i].kind = "delta"
           /\ events[i].op = "configure"
              => events[i - 1].op = "unit" /\ LowFive(events[i - 1].data) \in {7, 8}
    /\ sps = LastOfType(handled, 7)
    /\ pps = LastOfType(handled, 8)
    /\ isConfigured <=> sps # Null /\ pps # Null

\* Units of every class were handled, a frame type with two different header
\* bytes among them, both kinds of chunk were forwarded and a unit of another
\* type was passed over last.
C27_Witness ==
    /\ \E i \in DOMAIN dispatched : \E k \in DOMAIN dispatched :
           Elem(dispatched[i], 4) % 32 = 1 /\ Elem(dispatched[k], 4) % 32 = 5
    /\ \E i \in DOMAIN handled : \E k \in DOMAIN handled :
           LowFive(handled[i]) = LowFive(handled[k])
           /\ Elem(handled[i], PresentLen(handled[i])) # Elem(handled[k], PresentLen(handled[k]))
    /\ sps # Null /\ pps # Null
    /\ events # << >> /\ events[Len(events)].op = "unit"
    /\ events[Len(events)].type \notin {1, 5, 7, 8}

\* C28 as stated: once the engine could not be constructed, later clear()
\* calls do not attempt the construction again: a clear() that found no engine
\* to close, none having been constructed, constructs none.
C28_AsStated ==
    events # << >> /\ events[1].op = "clear" /\ ~HasEvent(events, "close")
    => ~HasEvent(events, "new")

\* C31: whenever isConfigured is true both sps and pps are stored and an
\* engine handle exists.
C31_ConfiguredImplies ==
    isConfigured => sps # Null /\ pps # Null /\ videoDecoder # Null0

\* The decoder is configured again on the engine built by a clear().
C31_Witness ==
    /\ isConfigured
    /\ videoDecoder > 1
    /\ engines[1] = "closed"
    /\ sps # Null /\ pps # Null

\* C32 as stated: after stop() has returned the runner spawns no capture
\* process until start() is called again from outside the runner.
C32_AsStated == [][runner'.spawned > runner.spawned => ~runner.halted]_vars

\* C33 as stated: at most one capture process spawned by the runner is alive
\* at any time.
C33_AsStated == Cardinality(runner.alive) <= 1

\* C34 as stated: every command's promise settles at most once, and
\* pendingCommands is the set of the commands that have not settled yet.
C34_AsStated ==
    /\ \A c \in 1..MaxCommands : runner.settles[c] <= 1
    /\ runner.pendingCommands = {c \in 1..runner.issued : runner.settles[c] = 0}

C36_AsStated == jpeg.isRendering => jpeg.inflight # {}

\* C37: at most one image load is in flight, frameCount is the loads started
\* plus droppedFrames since the last clear(), and at most one blob URL
\* created by decode() is unrevoked, the one in pendingFrame.
C37_BacklogControl ==
    /\ Cardinality(jpeg.inflight) <= 1
    /\ jpeg.inflight # {} /\ jpeg.isRendering => jpeg.inflight = {jpeg.pendingFrame}
    /\ jpeg.frameCount = jpeg.started + jpeg.droppedFrames
    /\ Cardinality(jpeg.live) <= 1
    /\ jpeg.live = IF jpeg.pendingFrame = 0 THEN {} ELSE {jpeg.pendingFrame}

\* Frames were dropped behind a load, loads rendered, and a later frame is
\* loading with the URL of the frame before it revoked.
C37_Witness ==
    /\ jpeg.droppedFrames >= 1
    /\ jpeg.renderedFrames >= 1
    /\ jpeg.started >= 2
    /\ jpeg.inflight = {jpeg.pendingFrame}
    /\ jpeg.created > Cardinality(jpeg.live)

\* A frame emitted by the runner: it begins with FF D8, it ends with FF D9,
\* and no FF D9 begins at an earlier place after its first two bytes.
WellCut(bytes) ==
    /\ Len(bytes) >= 4
    /\ SubSeq(bytes, 1, 2) = SOI
    /\ SubSeq(bytes, Len(bytes) - 1, Len(bytes)) = EOI
    /\ \A i \in 3..(Len(bytes) - 2) : SubSeq(bytes, i, i + 1) # EOI

\* C38: however ffmpeg's output is chunked, every emitted frame starts with
\* FF D8 and ends with the first FF D9 after it, the frames are pieces of
\* the output in its order with no byte in two of them, and the buffer is
\* at most 1 MiB after each data event.
C38_FrameExtraction ==
    /\ \A k \in 1..Len(runner.frames) :
          LET f == runner.frames[k]
          IN  /\ WellCut(f.bytes)
              /\ f.at + Len(f.bytes) <= runner.fed
              /\ f.bytes = SubSeq(runner.stream, f.at + 1, f.at + Len(f.bytes))
              /\ k > 1 => runner.frames[k - 1].at + Len(runner.frames[k - 1].bytes) <= f.at
    /\ Len(runner.buffer) <= StdoutCap
    /\ runner.base + Len(runner.buffer) = runner.fed
    /\ runner.buffer = SubSeq(runner.stream, runner.base + 1, runner.fed)

\* Two frames came out with bytes of no frame before the first and between
\* them, the first in more than one chunk, after the buffer had been cut.
C38_Witness ==
    /\ Len(runner.frames) = 2
    /\ runner.cut > 0
    /\ runner.frames[1].at > 0
    /\ runner.frames[2].at > runner.frames[1].at + Len(runner.frames[1].bytes)
    /\ Len(runner.frames[1].bytes) > MaxData
    /\ runner.fed = Len(runner.stream)
====
